---- MODULE Spec2Model ----
(***************************************************************************)
(* State-machine model of the PCjs storage controllers: the Floppy Drive   *)
(* Controller (src/unnamed/part_002, "fdc.js") and the Hard Drive          *)
(* Controller (src/modules/pcjs/lib/hdc.js).  The ChipSet (interrupt and   *)
(* DMA controllers) and the Disk image are collaborators whose code is not *)
(* part of the source tree; they are modelled from the specification.      *)
(***************************************************************************)
EXTENDS Integers, Sequences, FiniteSets, TLC

VARIABLES
    ctl,        \* which controller this machine run exercises
    fdc,        \* FDC controller registers (initController)
    fdrives,    \* FDC aDrives[0..3] (initDrive)
    hdc,        \* HDC controller registers (initController)
    hdrives,    \* HDC aDrives[0..1] (initDrive)
    images,     \* contents of the disk images (Disk objects)
    dma,        \* ChipSet DMA channel state for the controller
    irr,        \* ChipSet interrupt request bits (set of pending IRQ names)
    last        \* the command the last step executed, and the commands begun

vars == <<ctl, fdc, fdrives, hdc, hdrives, images, dma, irr, last>>

(***************************************************************************)
(* Bounds of the exploration.                                              *)
(***************************************************************************)
\* commands a host issues in one run (a sector moved through the Data
\* register of the AT controller counts as one)
MaxCmds == 2

\* sectors per track of the mounted diskette images
DiskSectors == 2

\* size code of the diskette images' sectors (128 << code bytes)
DiskSizeCode == 0

(***************************************************************************)
(* Values standing for JavaScript's undefined and null.                    *)
(***************************************************************************)
Undefined == 0 - 1
Null == <<>>
NoDisk == "nodisk"

(***************************************************************************)
(* Bitwise operators on non-negative integers.                             *)
(***************************************************************************)
RECURSIVE BitAnd(_, _)
BitAnd(a, b) ==
    IF a = 0 \/ b = 0 THEN 0
    ELSE (a % 2) * (b % 2) + 2 * BitAnd(a \div 2, b \div 2)

RECURSIVE BitOr(_, _)
BitOr(a, b) ==
    IF a = 0 THEN b
    ELSE IF b = 0 THEN a
    ELSE (IF (a % 2) + (b % 2) > 0 THEN 1 ELSE 0) + 2 * BitOr(a \div 2, b \div 2)

RECURSIVE Shl(_, _)
Shl(a, n) == IF n = 0 THEN a ELSE Shl(2 * a, n - 1)

RECURSIVE Shr(_, _)
Shr(a, n) == IF n = 0 THEN a ELSE Shr(a \div 2, n - 1)

BitClear(a, mask) == a - BitAnd(a, mask)

(***************************************************************************)
(* FDC register bits, commands and error codes.                            *)
(***************************************************************************)
FDC_REG_OUTPUT_SELECT == 3
FDC_REG_OUTPUT_ENABLE == 4
FDC_REG_OUTPUT_INT_ENABLE == 8
FDC_REG_OUTPUT_MOTOR_A == 16
FDC_REG_STATUS_BUSY == 16
FDC_REG_STATUS_READ_DATA == 64
FDC_REG_STATUS_RQM == 128

FDC_CMD_SPECIFY == 3
FDC_CMD_DRIVE_STATUS == 4
FDC_CMD_WRITE_DATA == 5
FDC_CMD_READ_DATA == 6
FDC_CMD_RECALIBRATE == 7
FDC_CMD_INT_STATUS == 8
FDC_CMD_FORMAT_TRACK == 13
FDC_CMD_SEEK == 15
FDC_CMD_MASK == 31

FDC_ERR_NONE == 0
FDC_ERR_NOT_READY == 8
FDC_ERR_SEEK_END == 32
FDC_ERR_INCOMPLETE == 64
FDC_ERR_RESET == 192
FDC_ERR_ST0 == 255
FDC_ERR_NOT_WRITABLE == 512
FDC_ERR_NO_DATA == 1024
FDC_ERR_CRC_ERROR == 8192
FDC_ERR_ST1 == 65280
FDC_ERR_ST2 == 16711680

FDC_DRIVES == 4
FDC_FIFO == 9
FORMAT_ID == 4
SECTOR_BASE == 128

\* FDC.aCmdSeqs: command opcode -> bytes written / bytes read
FDC_aCmdSeqs ==
    (FDC_CMD_SPECIFY      :> [cbWrite |-> 3, cbRead |-> 0]) @@
    (FDC_CMD_DRIVE_STATUS :> [cbWrite |-> 2, cbRead |-> 1]) @@
    (FDC_CMD_WRITE_DATA   :> [cbWrite |-> 9, cbRead |-> 7]) @@
    (FDC_CMD_READ_DATA    :> [cbWrite |-> 9, cbRead |-> 7]) @@
    (FDC_CMD_RECALIBRATE  :> [cbWrite |-> 2, cbRead |-> 0]) @@
    (FDC_CMD_INT_STATUS   :> [cbWrite |-> 1, cbRead |-> 2]) @@
    (FDC_CMD_FORMAT_TRACK :> [cbWrite |-> 6, cbRead |-> 7]) @@
    (FDC_CMD_SEEK         :> [cbWrite |-> 3, cbRead |-> 0])

(***************************************************************************)
(* Disk image (Disk component).  An image has a geometry and the contents  *)
(* of the sectors written so far; a sector never written reads as zeros.   *)
(***************************************************************************)
\* a freshly loaded image
NewImage(nCylinders, nHeads, nSectors, cbSector, fProtected) ==
    [nCylinders |-> nCylinders, nHeads |-> nHeads, nSectors |-> nSectors,
     cbSector |-> cbSector, fWriteProtected |-> fProtected, data |-> <<>>]

\* disk.seek(iCylinder, iHead, iSector): the sector, or null
DiskSeek(img, c, h, s) ==
    IF /\ c \in 0..(img.nCylinders - 1)
       /\ h \in 0..(img.nHeads - 1)
       /\ s \in 1..img.nSectors
    THEN <<c, h, s>> ELSE Null

\* the bytes of a sector
DiskSector(img, sector) ==
    IF sector \in DOMAIN img.data THEN img.data[sector]
    ELSE [i \in 0..(img.cbSector - 1) |-> 0]

\* disk.read(sector, ibSector): the byte, or -1 past the end of the sector
DiskRead(img, sector, ib) ==
    IF ib \in 0..(img.cbSector - 1) THEN DiskSector(img, sector)[ib] ELSE 0 - 1

\* disk.write(sector, ibSector, b): whether the byte was written, and the image
DiskWrite(img, sector, ib, b) ==
    IF ib \in 0..(img.cbSector - 1)
    THEN [ok |-> TRUE,
          img |-> [img EXCEPT !.data =
                     [k \in (DOMAIN img.data) \cup {sector} |->
                        IF k = sector
                        THEN [DiskSector(img, sector) EXCEPT ![ib] = b]
                        ELSE img.data[k]]]]
    ELSE [ok |-> FALSE, img |-> img]

\* the FDC's diskette image: one track of DiskSectors sectors
cbDiskSector == Shl(SECTOR_BASE, DiskSizeCode)

NewDiskette(fProtected) == NewImage(1, 1, DiskSectors, cbDiskSector, fProtected)

(***************************************************************************)
(* ChipSet: interrupt request register and the DMA channel.                *)
(***************************************************************************)
IRQ_FDC == "IRQ.FDC"
IRQ_XTC == "IRQ.XTC"
IRQ_ATC == "IRQ.ATC"

\* chipset.setIRR(nIRQ) / chipset.clearIRR(nIRQ)
setIRR(m, nIRQ) == [m EXCEPT !.irr = @ \cup {nIRQ}]

clearIRR(m, nIRQ) == [m EXCEPT !.irr = @ \ {nIRQ}]

\* no continuation registered with requestDMA
NoDone == [kind |-> "none"]

\* the channel before any connectDMA
DMAIdle ==
    [open |-> FALSE, id |-> 0, component |-> "none", fn |-> "none",
     iDrive |-> 0, done |-> NoDone, ids |-> <<>>,
     cbXfer |-> 0, fComplete |-> FALSE]

\* chipset.connectDMA(iDMAChannel, component, sFunction, obj)
connectDMA(m, component, sFunction, iDrive) ==
    [m EXCEPT !.dma.component = component, !.dma.fn = sFunction,
              !.dma.iDrive = iDrive]

\* What the DMA peer was programmed to do: whether the channel is unmasked
\* when the request arrives (fNow), how many bytes it moves (cb), and the
\* bytes it supplies to the controller (the byte b for a write, the sector
\* identifiers ids for a format).
PeerByte(p, i) ==
    IF p.ids = <<>> THEN p.b
    ELSE p.ids[(i \div FORMAT_ID) + 1][(i % FORMAT_ID) + 1]

(***************************************************************************)
(* FDC: controller and drive state.                                        *)
(***************************************************************************)
\* FDC.prototype.initDrive(drive, iDrive, data) with data undefined: the
\* drive gets the default geometry (40 cylinders, 2 heads, 9 sectors of 512
\* bytes), the positional fields are reset, the mounted disk and the format
\* scratch fields are kept.
FDC_initDrive(drive) ==
    [drive EXCEPT
        !.errorCode = FDC_ERR_RESET,
        !.nCylinders = 40,
        !.nHeads = 2,
        !.nSectors = 9,
        !.cbSector = 512,
        !.bHead = 0,
        !.bCylinder = 0,
        !.bSector = Undefined,
        !.bSectorEnd = Undefined,
        !.nBytes = Undefined,
        !.ibSector = Undefined,
        !.sector = Null]

\* a drive object as first created by FDC_initController (this.aDrives[i] = {})
FDC_NewDrive(disk) ==
    FDC_initDrive([errorCode |-> Undefined, nCylinders |-> Undefined,
               nHeads |-> Undefined, nSectors |-> Undefined,
               cbSector |-> Undefined, bHead |-> Undefined,
               bCylinder |-> Undefined, bSector |-> Undefined,
               bSectorEnd |-> Undefined, nBytes |-> Undefined,
               ibSector |-> Undefined, sector |-> Null, disk |-> disk,
               bFiller |-> Undefined, cbFormat |-> Undefined,
               abFormat |-> [i \in 0..(FORMAT_ID - 1) |-> Undefined],
               cSectorsFormatted |-> Undefined, bFormatting |-> FALSE])

\* the controller registers set by FDC_initController(data) with data undefined
FDC_NewController ==
    [iDrive |-> 0, iUnit |-> 0, regStatus |-> FDC_REG_STATUS_RQM,
     regDataArray |-> [i \in 0..(FDC_FIFO - 1) |-> Undefined],
     regDataIndex |-> 0, regDataTotal |-> 0, regOutput |-> 0]

\* FDC_initController that makes the drives anew, without their diskettes
FDC_initController_Fresh(m) ==
    [m EXCEPT !.fdc = FDC_NewController,
              !.drv = [i \in DOMAIN m.drv |-> FDC_NewDrive(NoDisk)]]

\* FDC.prototype.initController(): registers and every drive reinitialized
FDC_initController(m) ==
    [m EXCEPT !.fdc = FDC_NewController,
              !.drv = [i \in DOMAIN m.drv |-> FDC_initDrive(m.drv[i])]]

\* FDC.prototype.popCmd(): the i-th byte of the command in the FIFO
FDC_popCmd(f, i) == f.regDataArray[i]

\* FDC.prototype.beginResult()
FDC_beginResult(m) == [m EXCEPT !.fdc.regDataIndex = 0, !.fdc.regDataTotal = 0]

\* FDC.prototype.pushResult(bResult)
FDC_pushResult(m, bResult) ==
    [m EXCEPT !.fdc.regDataArray[m.fdc.regDataTotal] = bResult,
              !.fdc.regDataTotal = @ + 1]

\* FDC.prototype.pushST0(): unit, head and the ST0 bits of the error code
FDC_pushST0(m) ==
    FDC_pushResult(m, BitOr(BitOr(m.fdc.iUnit, m.drv[m.fdc.iUnit].bHead),
                        BitAnd(m.drv[m.fdc.iUnit].errorCode, FDC_ERR_ST0)))

\* FDC.prototype.pushST1()
FDC_pushST1(m) ==
    FDC_pushResult(m, Shr(BitAnd(m.drv[m.fdc.iUnit].errorCode, FDC_ERR_ST1), 8))

\* FDC.prototype.pushST2()
FDC_pushST2(m) ==
    FDC_pushResult(m, Shr(BitAnd(m.drv[m.fdc.iUnit].errorCode, FDC_ERR_ST2), 16))

\* FDC.prototype.pushST3(): always 0x00
FDC_pushST3(m) == FDC_pushResult(m, 0)

(***************************************************************************)
(* FDC: byte transfer between the drive and the DMA peer.                  *)
(***************************************************************************)
\* the do { } while (true) loop of FDC.prototype.readByte
RECURSIVE FDC_readLoop(_, _)
FDC_readLoop(m, iD) ==
    LET d == m.drv[iD]
        b == IF d.sector # Null
             THEN DiskRead(m.img[d.disk], d.sector, d.ibSector) ELSE 0 - 1
        d1 == IF d.sector # Null THEN [d EXCEPT !.ibSector = @ + 1] ELSE d
        sector == DiskSeek(m.img[d.disk], d1.bCylinder, d1.bHead, d1.bSector)
    IN  IF b >= 0 THEN [m |-> [m EXCEPT !.drv[iD] = d1], b |-> b]
        ELSE IF sector = Null
        THEN [m |-> [m EXCEPT !.drv[iD] =
                        [d1 EXCEPT !.sector = Null,
                                   !.errorCode = BitOr(FDC_ERR_NO_DATA, FDC_ERR_INCOMPLETE)]],
              b |-> 0 - 1]
        ELSE FDC_readLoop([m EXCEPT !.drv[iD] =
                            [d1 EXCEPT !.sector = sector, !.ibSector = 0,
                                       !.bSector = @ + 1]], iD)

\* FDC_readByte made to roll a sector past the last of the track into the head
FDC_readByte_Rolling(m, iD) ==
    IF m.drv[iD].errorCode = FDC_ERR_NONE /\ m.drv[iD].disk # NoDisk
    THEN LET r == FDC_readLoop(m, iD)
             d == r.m.drv[iD]
         IN  [m |-> IF d.bSector > m.img[d.disk].nSectors
                    THEN [r.m EXCEPT !.drv[iD].bSector = 1,
                                     !.drv[iD].bHead = @ + 1]
                    ELSE r.m,
              b |-> r.b]
    ELSE [m |-> m, b |-> 0 - 1]

\* FDC.prototype.readByte(drive, done): the byte handed to done(), or -1
FDC_readByte(m, iD) ==
    IF m.drv[iD].errorCode = FDC_ERR_NONE /\ m.drv[iD].disk # NoDisk
    THEN FDC_readLoop(m, iD)
    ELSE [m |-> m, b |-> 0 - 1]

\* the do { } while (true) loop of FDC.prototype.writeByte
RECURSIVE FDC_writeLoop(_, _, _)
FDC_writeLoop(m, iD, b) ==
    LET d == m.drv[iD]
        w == IF d.sector # Null
             THEN DiskWrite(m.img[d.disk], d.sector, d.ibSector, b)
             ELSE [ok |-> FALSE, img |-> m.img[d.disk]]
        d1 == IF d.sector # Null THEN [d EXCEPT !.ibSector = @ + 1] ELSE d
        sector == DiskSeek(m.img[d.disk], d1.bCylinder, d1.bHead, d1.bSector)
    IN  IF w.ok
        THEN [m |-> [m EXCEPT !.drv[iD] = d1, !.img[d.disk] = w.img], b |-> b]
        ELSE IF sector = Null
        THEN [m |-> [m EXCEPT !.drv[iD] =
                        [d1 EXCEPT !.sector = Null,
                                   !.errorCode = BitOr(FDC_ERR_CRC_ERROR, FDC_ERR_INCOMPLETE)]],
              b |-> 0 - 1]
        ELSE FDC_writeLoop([m EXCEPT !.drv[iD] =
                             [d1 EXCEPT !.sector = sector, !.ibSector = 0,
                                        !.bSector = @ + 1]], iD, b)

\* FDC.prototype.writeByte(drive, b): b, or -1 if the byte was refused
FDC_writeByte(m, iD, b) ==
    IF m.drv[iD].errorCode # FDC_ERR_NONE \/ m.drv[iD].disk = NoDisk
    THEN [m |-> m, b |-> 0 - 1]
    ELSE FDC_writeLoop(m, iD, b)

\* the for loop of writeFormat: n filler bytes written one after the other,
\* stopping at the first byte refused (the loop is unfolded by halves)
RECURSIVE FDC_fillSector(_, _, _)
FDC_fillSector(m, iD, n) ==
    IF n <= 0 THEN [m |-> m, b |-> 0]
    ELSE IF n = 1 THEN FDC_writeByte(m, iD, m.drv[iD].bFiller)
    ELSE LET r == FDC_fillSector(m, iD, n \div 2)
         IN  IF r.b < 0 THEN r ELSE FDC_fillSector(r.m, iD, n - (n \div 2))

\* FDC_writeFormat without the refusal that follows the last sector
FDC_writeFormat_NoRefusal(m, iD, b) ==
    IF m.drv[iD].errorCode # FDC_ERR_NONE THEN [m |-> m, b |-> 0 - 1]
    ELSE
    LET d == m.drv[iD]
        ab == [d.abFormat EXCEPT ![d.cbFormat] = b]
        cb == d.cbFormat + 1
        m1 == [m EXCEPT !.drv[iD] = [d EXCEPT !.abFormat = ab, !.cbFormat = cb]]
        m2 == [m EXCEPT !.drv[iD] =
                 [d EXCEPT !.abFormat = ab, !.cbFormat = 0,
                           !.bCylinder = ab[0], !.bHead = ab[1],
                           !.bSector = ab[2],
                           !.nBytes = Shl(SECTOR_BASE, ab[3])]]
        fill == FDC_fillSector(m2, iD, m2.drv[iD].nBytes)
    IN  IF cb # FORMAT_ID THEN [m |-> m1, b |-> b]
        ELSE IF fill.b < 0 THEN [m |-> fill.m, b |-> 0 - 1]
        ELSE [m |-> [fill.m EXCEPT !.drv[iD].cSectorsFormatted = @ + 1],
              b |-> b]

\* FDC.prototype.writeFormat(drive, b): b, or -1 if the byte was refused
FDC_writeFormat(m, iD, b) ==
    IF m.drv[iD].errorCode # FDC_ERR_NONE THEN [m |-> m, b |-> 0 - 1]
    ELSE
    LET d == m.drv[iD]
        ab == [d.abFormat EXCEPT ![d.cbFormat] = b]
        cb == d.cbFormat + 1
        m1 == [m EXCEPT !.drv[iD] = [d EXCEPT !.abFormat = ab, !.cbFormat = cb]]
        m2 == [m EXCEPT !.drv[iD] =
                 [d EXCEPT !.abFormat = ab, !.cbFormat = 0,
                           !.bCylinder = ab[0], !.bHead = ab[1],
                           !.bSector = ab[2],
                           !.nBytes = Shl(SECTOR_BASE, ab[3])]]
        fill == FDC_fillSector(m2, iD, m2.drv[iD].nBytes)
        m3 == IF cb = FORMAT_ID
              THEN [fill.m EXCEPT !.drv[iD].cSectorsFormatted = @ + 1]
              ELSE m1
    IN  IF cb = FORMAT_ID /\ fill.b < 0 THEN [m |-> fill.m, b |-> 0 - 1]
        ELSE [m |-> m3,
              b |-> IF m3.drv[iD].cSectorsFormatted >= m3.drv[iD].bSectorEnd
                    THEN 0 - 1 ELSE b]

\* FDC.prototype.dmaRead / dmaWrite / dmaFormat: one DMA byte for the function
\* the channel is connected to; b < 0 in the result ends the transfer
FDC_dmaByte(m, b) ==
    IF m.dma.fn = "dmaRead" THEN FDC_readByte(m, m.dma.iDrive)
    ELSE IF m.dma.fn = "dmaWrite" THEN FDC_writeByte(m, m.dma.iDrive, b)
    ELSE FDC_writeFormat(m, m.dma.iDrive, b)

(***************************************************************************)
(* HDC: register bits, commands and error codes of the XT controller.      *)
(***************************************************************************)
XTC_DATA_STATUS_OK == 0
XTC_DATA_STATUS_ERROR == 2
XTC_STATUS_NONE == 0
XTC_STATUS_REQ == 1
XTC_STATUS_IOMODE == 2
XTC_STATUS_BUS == 4
XTC_STATUS_BUSY == 8
XTC_STATUS_INTERRUPT == 32

XTC_CMD_TEST_READY == 0
XTC_CMD_RECALIBRATE == 1
XTC_CMD_REQUEST_SENSE == 3
XTC_CMD_READ_VERF == 5
XTC_CMD_READ_DATA == 8
XTC_CMD_WRITE_DATA == 10
XTC_CMD_INIT_DRIVE == 12
XTC_CMD_READ_BUFFER == 14
XTC_CMD_WRITE_BUFFER == 15
XTC_CMD_RAM_DIAGNOSTIC == 224
XTC_CMD_CTL_DIAGNOSTIC == 228

XTC_ERR_NONE == 0
XTC_ERR_NOT_READY == 4
XTC_ERR_NO_SECTOR == 20

XTC_FIFO == 14
XTC_CMD_LENGTH == 6
HDC_DRIVE_PARMS == 8
HDC_SECTORS == 17
HDC_CBSECTOR == 512

\* HDC.aDriveTypes[0]: drive type -> [cylinders, heads] of the XT controller
XTC_aDriveTypes ==
    (0 :> <<306, 2>>) @@ (1 :> <<375, 8>>) @@ (2 :> <<306, 6>>) @@ (3 :> <<306, 4>>)

\* HDC.aDriveTypes[1]: drive type -> [cylinders, heads] of the AT controller
ATC_aDriveTypes ==
    (1 :> <<306, 4>>) @@ (2 :> <<615, 4>>) @@ (3 :> <<615, 6>>) @@
    (4 :> <<940, 8>>) @@ (5 :> <<940, 6>>) @@ (6 :> <<615, 4>>) @@
    (7 :> <<462, 8>>) @@ (8 :> <<733, 5>>) @@ (9 :> <<900, 15>>) @@
    (10 :> <<820, 3>>) @@ (11 :> <<855, 5>>) @@ (12 :> <<855, 7>>) @@
    (13 :> <<306, 8>>) @@ (14 :> <<733, 7>>)

\* HDC.aDriveTypes[this.iHDC]
HDC_aDriveTypes(fATC) == IF fATC THEN ATC_aDriveTypes ELSE XTC_aDriveTypes

\* this.iDriveTypeDefault, the type of a drive configured without one
HDC_iDriveTypeDefault(fATC) == IF fATC THEN 2 ELSE 3

(***************************************************************************)
(* HDC: register bits and commands of the AT controller.                   *)
(***************************************************************************)
ATC_DIAG_NO_ERROR == 1
ATC_ERROR_NONE == 0
ATC_ERROR_NO_CHS == 16
ATC_CYLHI_MASK == 3
ATC_DRVHD_HEAD_MASK == 15
ATC_DRVHD_DRIVE_MASK == 16
ATC_STATUS_BUSY == 128
ATC_STATUS_READY == 64
ATC_STATUS_SEEK_OK == 16
ATC_STATUS_DATA_REQ == 8
ATC_STATUS_ERROR == 1
ATC_COMMAND_RESTORE == 16
ATC_COMMAND_READ_DATA == 32
ATC_COMMAND_WRITE_DATA == 48
ATC_COMMAND_READ_VERF == 64
ATC_COMMAND_DIAGNOSE == 144
ATC_COMMAND_SETPARMS == 145
ATC_COMMAND_MASK == 240
ATC_FDR_INT_DISABLE == 2
ATC_FDR_RESET == 4
ATC_SECTORS_MAX == 256

(***************************************************************************)
(* HDC: controller and drive state.                                        *)
(***************************************************************************)
\* drive.abSector while undefined; of the buffer the model keeps the length,
\* the number of bytes stored and the last byte stored
NoBuffer == [length |-> Undefined, cb |-> 0, b |-> Undefined]

\* HDC.prototype.verifyDrive(drive): geometry from the drive parameters
\* programmed with INIT_DRIVE, else from the drive type; the Disk is created
\* the first time
HDC_verifyDrive(m, iD) ==
    LET d == m.hdrv[iD]
        fParms == d.abDriveParms[2] # Undefined /\ d.abDriveParms[2] # 0
        nHeads == IF fParms THEN d.abDriveParms[2]
                  ELSE HDC_aDriveTypes(m.hdc.fATC)[d.type][2]
        nCylinders == IF fParms
                      THEN BitOr(Shl(d.abDriveParms[0], 8), d.abDriveParms[1])
                      ELSE HDC_aDriveTypes(m.hdc.fATC)[d.type][1]
        disk == IF iD = 0 THEN "C" ELSE "D"
    IN  IF nHeads = 0 THEN m
        ELSE [m EXCEPT
                !.hdrv[iD].nCylinders = nCylinders,
                !.hdrv[iD].nHeads = nHeads,
                !.hdrv[iD].disk = disk,
                !.img = IF d.disk = NoDisk
                        THEN (disk :> NewImage(nCylinders, nHeads, d.nSectors,
                                               d.cbSector, FALSE)) @@ @
                        ELSE @]

\* HDC.prototype.initDrive(iDrive, drive, driveConfig, data, fHard) with data
\* undefined; the type the drive holds before is driveConfig['type'], which
\* is kept only if the drive-type table of the controller has it
HDC_initDrive(m, iD) ==
    HDC_verifyDrive(
        [m EXCEPT !.hdrv[iD] =
            [@ EXCEPT !.errorCode = XTC_ERR_NONE,
                      !.senseCode = 0,
                      !.abDriveParms = [i \in 0..(HDC_DRIVE_PARMS - 1) |-> Undefined],
                      !.abSector = NoBuffer,
                      !.bHead = Undefined,
                      !.nHeads = Undefined,
                      !.wCylinder = Undefined,
                      !.bSector = Undefined,
                      !.bSectorEnd = Undefined,
                      !.nBytes = Undefined,
                      !.bSectorBias = IF m.hdc.fATC THEN 0 ELSE 1,
                      !.type = IF @ \in DOMAIN HDC_aDriveTypes(m.hdc.fATC)
                               THEN @ ELSE HDC_iDriveTypeDefault(m.hdc.fATC),
                      !.nSectors = HDC_SECTORS,
                      !.cbSector = HDC_CBSECTOR,
                      !.ibSector = Undefined,
                      !.sector = Null]], iD)

\* a drive object as first created by initController (this.aDrives[i] = {})
HDC_NewDrive ==
    [errorCode |-> Undefined, senseCode |-> Undefined,
     abDriveParms |-> Undefined, abSector |-> NoBuffer, bHead |-> Undefined,
     nHeads |-> Undefined, wCylinder |-> Undefined, bSector |-> Undefined,
     bSectorEnd |-> Undefined, nBytes |-> Undefined, bSectorBias |-> Undefined,
     type |-> Undefined, nSectors |-> Undefined, cbSector |-> Undefined,
     nCylinders |-> Undefined, disk |-> NoDisk, ibSector |-> Undefined,
     sector |-> Null, bControl |-> Undefined]

\* every drive of the controller reinitialized, and the drive types in regConfig
RECURSIVE HDC_initDrives(_, _)
HDC_initDrives(m, iD) ==
    IF iD \notin DOMAIN m.hdrv THEN m
    ELSE LET m1 == HDC_initDrive(m, iD)
             m2 == IF ~m.hdc.fATC /\ iD <= 1
                   THEN [m1 EXCEPT !.hdc.regConfig =
                            BitOr(@, Shl(BitAnd(m1.hdrv[iD].type, 3), Shl(1 - iD, 1)))]
                   ELSE m1
         IN  HDC_initDrives(m2, iD + 1)

\* HDC_initController that always starts with no drive allowed to fail
HDC_initController_Fresh(m) ==
    HDC_initDrives(
        [m EXCEPT !.hdc =
            IF @.fATC
            THEN [@ EXCEPT !.regError = 0, !.regWPreC = 0, !.regSecCnt = 0,
                           !.regSecNum = 0, !.regCylLo = 0, !.regCylHi = 0,
                           !.regDrvHd = 0, !.regStatus = 0,
                           !.regCommand = ATC_STATUS_READY, !.regFDR = 0]
            ELSE [@ EXCEPT !.regConfig = 0,
                           !.regStatus = XTC_STATUS_NONE,
                           !.regDataArray = [i \in 0..(XTC_FIFO - 1) |-> Undefined],
                           !.regDataIndex = 0,
                           !.regDataTotal = 0,
                           !.regReset = Undefined,
                           !.regPulse = Undefined,
                           !.regPattern = Undefined,
                           !.iDriveAllowFail = 0 - 1]], 0)

\* HDC.prototype.initController(data, fHard) with data null: the registers
\* of the controller variant (the defaults are assigned by position, and the
\* XT controller keeps iDriveAllowFail once it has a value), then the drives
HDC_initController(m) ==
    HDC_initDrives(
        [m EXCEPT !.hdc =
            IF @.fATC
            THEN [@ EXCEPT !.regError = 0, !.regWPreC = 0, !.regSecCnt = 0,
                           !.regSecNum = 0, !.regCylLo = 0, !.regCylHi = 0,
                           !.regDrvHd = 0, !.regStatus = 0,
                           !.regCommand = ATC_STATUS_READY, !.regFDR = 0]
            ELSE [@ EXCEPT !.regConfig = 0,
                           !.regStatus = XTC_STATUS_NONE,
                           !.regDataArray = [i \in 0..(XTC_FIFO - 1) |-> Undefined],
                           !.regDataIndex = 0,
                           !.regDataTotal = 0,
                           !.regReset = Undefined,
                           !.regPulse = Undefined,
                           !.regPattern = Undefined,
                           !.iDriveAllowFail =
                               IF @ = Undefined THEN 0 - 1 ELSE @]], 0)

\* the controller object before initController; chipset is whether initBus()
\* found a ChipSet component
HDC_NewController(fATC) ==
    [fATC |-> fATC, regConfig |-> Undefined, regStatus |-> Undefined,
     regDataArray |-> Undefined, regDataIndex |-> Undefined,
     regDataTotal |-> Undefined, regReset |-> Undefined,
     regPulse |-> Undefined, regPattern |-> Undefined,
     iDriveAllowFail |-> Undefined, regError |-> Undefined,
     regWPreC |-> Undefined, regSecCnt |-> Undefined, regSecNum |-> Undefined,
     regCylLo |-> Undefined, regCylHi |-> Undefined, regDrvHd |-> Undefined,
     regCommand |-> Undefined, regFDR |-> Undefined, drive |-> Undefined,
     chipset |-> TRUE]

\* HDC.prototype.popCmd(): the i-th byte of the command, or -1 past its end
HDC_popCmd(h, i) == IF i < h.regDataTotal THEN h.regDataArray[i] ELSE 0 - 1

\* HDC.prototype.pushResult(bResult)
HDC_pushResult(m, bResult) ==
    [m EXCEPT !.hdc.regDataArray[m.hdc.regDataTotal] = bResult,
              !.hdc.regDataTotal = @ + 1]

\* HDC_beginResult that appends to what the FIFO holds
HDC_beginResult_Appending(m, bResult) ==
    LET m1 == HDC_pushResult(m, bResult)
    IN  [(IF m.hdc.chipset THEN setIRR(m1, IRQ_XTC) ELSE m1) EXCEPT
            !.hdc.regStatus = BitOr(@, XTC_STATUS_INTERRUPT)]

\* HDC.prototype.beginResult(bResult)
HDC_beginResult(m, bResult) ==
    LET m1 == HDC_pushResult([m EXCEPT !.hdc.regDataIndex = 0,
                                       !.hdc.regDataTotal = 0], bResult)
    IN  [(IF m.hdc.chipset THEN setIRR(m1, IRQ_XTC) ELSE m1) EXCEPT
            !.hdc.regStatus = BitOr(@, XTC_STATUS_INTERRUPT)]

(***************************************************************************)
(* HDC: byte transfer between the drive and the DMA peer.                  *)
(***************************************************************************)
\* the outcome of a controller function that returns: the machine, the byte
\* it returned, and that it did not throw
Returned(r) == [m |-> r.m, b |-> r.b, fThrow |-> FALSE]

\* HDC_advanceSector that never carries the head into the cylinder
HDC_advanceSector_NoCylinder(d) ==
    LET bSectorStart == 1 - d.bSectorBias
        fTrack == d.bSector + 1 >= d.nSectors + bSectorStart
        fCylinder == fTrack /\ d.bHead + 1 >= d.nHeads
    IN  [d EXCEPT !.bSector = IF fTrack THEN bSectorStart ELSE @ + 1,
                  !.bHead = IF fCylinder THEN 0 ELSE IF fTrack THEN @ + 1 ELSE @]

\* HDC_advanceSector that lets the sector reach nSectors + bSectorStart
HDC_advanceSector_OnePast(d) ==
    LET bSectorStart == 1 - d.bSectorBias
        fTrack == d.bSector + 1 > d.nSectors + bSectorStart
        fCylinder == fTrack /\ d.bHead + 1 >= d.nHeads
    IN  [d EXCEPT !.bSector = IF fTrack THEN bSectorStart ELSE @ + 1,
                  !.bHead = IF fCylinder THEN 0 ELSE IF fTrack THEN @ + 1 ELSE @,
                  !.wCylinder = IF fCylinder THEN @ + 1 ELSE @]

\* HDC.prototype.advanceSector(drive)
HDC_advanceSector(d) ==
    LET bSectorStart == 1 - d.bSectorBias
        fTrack == d.bSector + 1 >= d.nSectors + bSectorStart
        fCylinder == fTrack /\ d.bHead + 1 >= d.nHeads
    IN  [d EXCEPT !.bSector = IF fTrack THEN bSectorStart ELSE @ + 1,
                  !.bHead = IF fCylinder THEN 0 ELSE IF fTrack THEN @ + 1 ELSE @,
                  !.wCylinder = IF fCylinder THEN @ + 1 ELSE @]

\* HDC.prototype.readByte(drive, done, fAutoInc): the byte handed to done(),
\* or -1; inc is 1 with auto-increment and 0 without
HDC_readByte(m, iD, inc) ==
    LET d == m.hdrv[iD]
        b == IF d.sector # Null
             THEN DiskRead(m.img[d.disk], d.sector, d.ibSector) ELSE 0 - 1
        d1 == IF d.sector # Null THEN [d EXCEPT !.ibSector = @ + inc] ELSE d
        sector == DiskSeek(m.img[d.disk], d1.wCylinder, d1.bHead,
                           d1.bSector + d1.bSectorBias)
        d2 == HDC_advanceSector([d1 EXCEPT !.sector = sector, !.ibSector = 0])
    IN  IF d.errorCode # XTC_ERR_NONE THEN [m |-> m, b |-> 0 - 1]
        ELSE IF b >= 0 THEN [m |-> [m EXCEPT !.hdrv[iD] = d1], b |-> b]
        ELSE IF d.disk = NoDisk \/ sector = Null
        THEN [m |-> [m EXCEPT !.hdrv[iD] =
                        [d1 EXCEPT !.sector = Null,
                                   !.errorCode = XTC_ERR_NO_SECTOR]],
              b |-> 0 - 1]
        ELSE [m |-> [m EXCEPT !.hdrv[iD] = [d2 EXCEPT !.ibSector = @ + inc]],
              b |-> DiskRead(m.img[d.disk], sector, 0)]

\* the do { } while (true) loop of HDC.prototype.writeByte
RECURSIVE HDC_writeLoop(_, _, _)
HDC_writeLoop(m, iD, b) ==
    LET d == m.hdrv[iD]
        w == IF d.sector # Null
             THEN DiskWrite(m.img[d.disk], d.sector, d.ibSector, b)
             ELSE [ok |-> FALSE, img |-> <<>>]
        d1 == IF d.sector # Null THEN [d EXCEPT !.ibSector = @ + 1] ELSE d
        sector == IF d.disk # NoDisk
                  THEN DiskSeek(m.img[d.disk], d1.wCylinder, d1.bHead,
                                d1.bSector + d1.bSectorBias)
                  ELSE d1.sector
    IN  IF w.ok
        THEN [m |-> [m EXCEPT !.hdrv[iD] = d1, !.img[d.disk] = w.img], b |-> b]
        ELSE IF sector = Null
        THEN [m |-> [m EXCEPT !.hdrv[iD] =
                        [d1 EXCEPT !.sector = Null,
                                   !.errorCode = XTC_ERR_NO_SECTOR]],
              b |-> 0 - 1]
        ELSE HDC_writeLoop([m EXCEPT !.hdrv[iD] =
                             HDC_advanceSector([d1 EXCEPT !.sector = sector,
                                                          !.ibSector = 0])],
                           iD, b)

\* HDC.prototype.writeByte(drive, b): b, or -1 if the byte was refused
HDC_writeByte(m, iD, b) ==
    IF m.hdrv[iD].errorCode # XTC_ERR_NONE THEN [m |-> m, b |-> 0 - 1]
    ELSE HDC_writeLoop(m, iD, b)

\* HDC.prototype.writeBuffer(drive, b): b, or -1 if the buffer is full; with
\* no buffer (abSector undefined) the call throws
HDC_writeBuffer(m, iD, b) ==
    LET d == m.hdrv[iD]
    IN  IF d.abSector = NoBuffer THEN [m |-> m, b |-> 0 - 1, fThrow |-> TRUE]
        ELSE IF d.ibSector < d.abSector.length
        THEN [m |-> [m EXCEPT !.hdrv[iD].abSector.cb = d.ibSector + 1,
                              !.hdrv[iD].abSector.b = b,
                              !.hdrv[iD].ibSector = @ + 1],
              b |-> b, fThrow |-> FALSE]
        ELSE [m |-> [m EXCEPT !.hdrv[iD].errorCode = XTC_ERR_NO_SECTOR],
              b |-> 0 - 1, fThrow |-> FALSE]

\* HDC.prototype.dmaRead / dmaWrite / dmaWriteBuffer: one DMA byte for the
\* function the channel is connected to
HDC_dmaByte(m, b) ==
    IF m.dma.fn = "dmaWriteBuffer" THEN HDC_writeBuffer(m, m.dma.iDrive, b)
    ELSE Returned(IF m.dma.fn = "dmaRead"
                  THEN HDC_readByte(m, m.dma.iDrive, 1)
                  ELSE HDC_writeByte(m, m.dma.iDrive, b))

\* HDC_doneDMA without the fallback of an incomplete session to NOT_READY
HDC_doneDMA_NoFallback(m, fComplete) ==
    LET iD == m.dma.done.iDrive
        e0 == m.hdrv[iD].errorCode
        e2 == IF ~fComplete /\ m.dma.done.kind = "doDMAWrite"
                 /\ e0 = XTC_ERR_NO_SECTOR
              THEN XTC_ERR_NONE ELSE e0
        bStatus == IF e2 # XTC_ERR_NONE THEN XTC_DATA_STATUS_ERROR
                   ELSE XTC_DATA_STATUS_OK
    IN  HDC_beginResult([m EXCEPT !.hdrv[iD].errorCode = e2],
                        BitOr(bStatus, m.dma.done.bDrive))

\* the function(fComplete) passed to requestDMA by doDMARead, doDMAWrite and
\* doDMAWriteBuffer, and the done(bStatus) of doXTC it ends with
HDC_doneDMA(m, fComplete) ==
    LET iD == m.dma.done.iDrive
        e0 == m.hdrv[iD].errorCode
        e1 == IF ~fComplete /\ e0 = XTC_ERR_NONE THEN XTC_ERR_NOT_READY ELSE e0
        e2 == IF ~fComplete /\ m.dma.done.kind = "doDMAWrite"
                 /\ e1 = XTC_ERR_NO_SECTOR
              THEN XTC_ERR_NONE ELSE e1
        bStatus == IF e2 # XTC_ERR_NONE THEN XTC_DATA_STATUS_ERROR
                   ELSE XTC_DATA_STATUS_OK
    IN  HDC_beginResult([m EXCEPT !.hdrv[iD].errorCode = e2],
                        BitOr(bStatus, m.dma.done.bDrive))

(***************************************************************************)
(* ChipSet DMA peer: the transfer loop and the end of the session.         *)
(***************************************************************************)
\* one DMA byte, dispatched to the controller function connected to the
\* channel; fThrow tells that the function threw instead of returning
DMAByte(m, b) ==
    IF m.dma.component = "FDC" THEN Returned(FDC_dmaByte(m, b))
    ELSE HDC_dmaByte(m, b)

\* the continuation passed to requestDMA, called with fComplete (the FDC
\* passes none)
DMADone(m, fComplete) ==
    IF m.dma.done.kind = "none" THEN m ELSE HDC_doneDMA(m, fComplete)

\* the state of a transfer after byte number i was offered to the controller
\* with outcome r: cb bytes moved so far, fComplete unless the byte was
\* refused
DMAMoved(r, i) ==
    [m |-> r.m, cb |-> IF r.fThrow \/ r.b < 0 THEN i ELSE i + 1,
     fComplete |-> ~(r.fThrow \/ r.b < 0), fThrow |-> r.fThrow]

\* the second half of a transfer, skipped once a byte was refused
RECURSIVE DMATransfer(_, _, _, _)
DMAResume(t, p, hi) ==
    IF ~t.fComplete THEN t ELSE DMATransfer(t.m, p, t.cb, hi)

\* the peer moves bytes lo..hi-1 of its count one after the other, until the
\* count is exhausted or the controller refuses one (the loop is unfolded by
\* halves); cb is the number of bytes moved
DMATransfer(m, p, lo, hi) ==
    IF lo >= hi THEN [m |-> m, cb |-> lo, fComplete |-> TRUE, fThrow |-> FALSE]
    ELSE IF hi = lo + 1 THEN DMAMoved(DMAByte(m, PeerByte(p, lo)), lo)
    ELSE DMAResume(DMATransfer(m, p, lo, (lo + hi) \div 2), p, hi)

\* the sector identifiers of which the peer p offered every byte in a
\* transfer that ended as t
PeerIds(t, p) ==
    IF p.ids = <<>> THEN <<>>
    ELSE SubSeq(p.ids, 1, (IF t.fComplete THEN t.cb ELSE t.cb + 1) \div FORMAT_ID)

\* the end of a session whose transfer ended as t: the session is closed and
\* the continuation called with fComplete; a controller function that threw
\* leaves the session as it is
DMAClose(t, p) ==
    IF t.fThrow THEN t.m
    ELSE DMADone([t.m EXCEPT !.dma.open = FALSE, !.dma.cbXfer = t.cb,
                             !.dma.fComplete = t.fComplete,
                             !.dma.ids = PeerIds(t, p)],
                 t.fComplete)

\* the peer services the open session; a peer that was never programmed for
\* the channel (fAbort) closes the session without moving a byte
DMAService(m, p) ==
    DMAClose(IF p.fAbort
             THEN [m |-> m, cb |-> 0, fComplete |-> FALSE, fThrow |-> FALSE]
             ELSE DMATransfer(m, p, 0, p.cb), p)

\* chipset.requestDMA(iDMAChannel, done): the session opens (id counts the
\* sessions opened); an unmasked channel is serviced before requestDMA
\* returns, a masked one later
requestDMA(m, done, p) ==
    LET m1 == [m EXCEPT !.dma.open = TRUE, !.dma.id = @ + 1,
                        !.dma.done = done, !.dma.ids = <<>>, !.dma.cbXfer = 0, !.dma.fComplete = FALSE]
    IN  IF p.fNow THEN DMAService(m1, p) ELSE m1

(***************************************************************************)
(* FDC: command execution.                                                 *)
(***************************************************************************)
\* FDC.prototype.doRead(drive)
FDC_doRead(m, iD, p) ==
    IF m.drv[iD].disk # NoDisk
    THEN requestDMA(connectDMA([m EXCEPT !.drv[iD].sector = Null,
                                         !.drv[iD].errorCode = FDC_ERR_NONE],
                               "FDC", "dmaRead", iD), NoDone, p)
    ELSE [m EXCEPT !.drv[iD].errorCode = BitOr(FDC_ERR_NOT_READY, FDC_ERR_INCOMPLETE)]

\* FDC.prototype.doWrite(drive)
FDC_doWrite(m, iD, p) ==
    IF m.drv[iD].disk = NoDisk
    THEN [m EXCEPT !.drv[iD].errorCode = BitOr(FDC_ERR_NOT_READY, FDC_ERR_INCOMPLETE)]
    ELSE IF m.img[m.drv[iD].disk].fWriteProtected
    THEN [m EXCEPT !.drv[iD].errorCode = BitOr(FDC_ERR_NOT_WRITABLE, FDC_ERR_INCOMPLETE)]
    ELSE requestDMA(connectDMA([m EXCEPT !.drv[iD].sector = Null,
                                         !.drv[iD].errorCode = FDC_ERR_NONE],
                               "FDC", "dmaWrite", iD), NoDone, p)

\* FDC.prototype.doFormat(drive)
FDC_doFormat(m, iD, p) ==
    IF m.drv[iD].disk = NoDisk
    THEN [m EXCEPT !.drv[iD].errorCode = BitOr(FDC_ERR_NOT_READY, FDC_ERR_INCOMPLETE)]
    ELSE [requestDMA(
              connectDMA(
                  [m EXCEPT !.drv[iD].sector = Null,
                            !.drv[iD].errorCode = FDC_ERR_NONE,
                            !.drv[iD].cbFormat = 0,
                            !.drv[iD].abFormat =
                                [i \in 0..(FORMAT_ID - 1) |-> Undefined],
                            !.drv[iD].bFormatting = TRUE,
                            !.drv[iD].cSectorsFormatted = 0],
                  "FDC", "dmaFormat", iD),
              NoDone, p)
          EXCEPT !.drv[iD].bFormatting = FALSE]

\* FDC_pushResults without its last byte
FDC_pushResults_Short(m, n) ==
    LET d == m.drv[m.fdc.iUnit]
        m1 == FDC_pushST2(FDC_pushST1(FDC_pushST0(FDC_beginResult(m))))
    IN  FDC_pushResult(FDC_pushResult(FDC_pushResult(m1,
            d.bCylinder), d.bHead), d.bSector)

\* the seven result bytes of READ_DATA, WRITE_DATA and FORMAT_TRACK
FDC_pushResults(m, n) ==
    LET d == m.drv[m.fdc.iUnit]
        m1 == FDC_pushST2(FDC_pushST1(FDC_pushST0(FDC_beginResult(m))))
    IN  FDC_pushResult(FDC_pushResult(FDC_pushResult(FDC_pushResult(m1,
            d.bCylinder), d.bHead), d.bSector), n)

\* unit and head selected by the US byte of a command
FDC_select(m, bUS, fHead) ==
    LET iUnit == BitAnd(bUS, 3)
        m1 == [m EXCEPT !.fdc.iUnit = iUnit]
    IN  IF fHead THEN [m1 EXCEPT !.drv[iUnit].bHead = BitAnd(Shr(bUS, 2), 1)]
        ELSE m1

\* FDC.prototype.doCmd(), up to the end of the switch on the masked opcode;
\* fIRQ tells whether the command asks for a completion interrupt
FDC_doSwitch(m, p) ==
    LET a == m.fdc.regDataArray
        bCmdMasked == BitAnd(FDC_popCmd(m.fdc, 0), FDC_CMD_MASK)
        iU == BitAnd(FDC_popCmd(m.fdc, 1), 3)
    IN  CASE bCmdMasked = FDC_CMD_SPECIFY ->
                [m |-> FDC_beginResult(m), fIRQ |-> FALSE, fDrive |-> FALSE]
          [] bCmdMasked = FDC_CMD_DRIVE_STATUS ->
                [m |-> FDC_pushST3(FDC_beginResult(FDC_select(m, a[1], FALSE))),
                 fIRQ |-> FALSE, fDrive |-> TRUE]
          [] bCmdMasked \in {FDC_CMD_WRITE_DATA, FDC_CMD_READ_DATA} ->
                LET m1 == FDC_select(m, a[1], TRUE)
                    m2 == [m1 EXCEPT !.drv[iU].bCylinder = a[2],
                                     !.drv[iU].bSector = a[4],
                                     !.drv[iU].nBytes = Shl(SECTOR_BASE, a[5]),
                                     !.drv[iU].bSectorEnd = a[6]]
                    m3 == IF bCmdMasked = FDC_CMD_READ_DATA
                          THEN FDC_doRead(m2, iU, p) ELSE FDC_doWrite(m2, iU, p)
                IN  [m |-> FDC_pushResults(m3, a[5]), fIRQ |-> TRUE, fDrive |-> TRUE]
          [] bCmdMasked = FDC_CMD_RECALIBRATE ->
                [m |-> FDC_beginResult(
                         [FDC_select(m, a[1], FALSE) EXCEPT
                             !.drv[iU].bCylinder = 0,
                             !.drv[iU].errorCode = FDC_ERR_SEEK_END]),
                 fIRQ |-> TRUE, fDrive |-> TRUE]
          [] bCmdMasked = FDC_CMD_INT_STATUS ->
                LET m1 == FDC_beginResult([m EXCEPT !.fdc.iUnit = m.fdc.iDrive])
                IN  [m |-> FDC_pushResult(FDC_pushST0(m1),
                                          m1.drv[m1.fdc.iUnit].bCylinder),
                     fIRQ |-> FALSE, fDrive |-> TRUE]
          [] bCmdMasked = FDC_CMD_FORMAT_TRACK ->
                LET m1 == FDC_select(m, a[1], TRUE)
                    m2 == [m1 EXCEPT !.drv[iU].nBytes = Shl(SECTOR_BASE, a[2]),
                                     !.drv[iU].bSectorEnd = a[3],
                                     !.drv[iU].bFiller = a[5]]
                IN  [m |-> FDC_pushResults(FDC_doFormat(m2, iU, p), a[2]),
                     fIRQ |-> TRUE, fDrive |-> TRUE]
          [] bCmdMasked = FDC_CMD_SEEK ->
                [m |-> FDC_beginResult(
                         [FDC_select(m, a[1], TRUE) EXCEPT
                             !.drv[iU].bCylinder = a[2],
                             !.drv[iU].errorCode = FDC_ERR_SEEK_END]),
                 fIRQ |-> TRUE, fDrive |-> TRUE]
          [] OTHER -> [m |-> m, fIRQ |-> FALSE, fDrive |-> FALSE]

\* FDC_fInterrupt without the tests of INT_ENABLE and of the drive's error
FDC_fInterrupt_Unconditional(m, r) == r.fDrive /\ r.fIRQ

\* the interrupt test that ends doCmd()
FDC_fInterrupt(m, r) ==
    /\ BitAnd(m.fdc.regOutput, FDC_REG_OUTPUT_INT_ENABLE) # 0
    /\ r.fDrive
    /\ BitAnd(r.m.drv[r.m.fdc.iUnit].errorCode, FDC_ERR_NOT_READY) = 0
    /\ r.fIRQ

\* doCmd() after the switch: with results in the FIFO the Result Phase is
\* signalled in the Main Status register
FDC_setStatus(m) ==
    IF m.fdc.regDataTotal > 0
    THEN [m EXCEPT !.fdc.regStatus =
              BitOr(@, BitOr(FDC_REG_STATUS_READ_DATA, FDC_REG_STATUS_BUSY))]
    ELSE m

\* the end of doCmd() for the outcome r of the switch
FDC_endCmd(m, r) ==
    IF FDC_fInterrupt(m, r) THEN setIRR(FDC_setStatus(r.m), IRQ_FDC)
    ELSE FDC_setStatus(r.m)

\* FDC.prototype.doCmd()
FDC_doCmd(m, p) ==
    FDC_endCmd(m, FDC_doSwitch([m EXCEPT !.fdc.regDataIndex = 0], p))

(***************************************************************************)
(* FDC: port handlers.                                                     *)
(***************************************************************************)
\* FDC.prototype.outFDCOutput(port, bOut, addrFrom)
FDC_outFDCOutput(m, bOut) ==
    LET m1 == IF BitAnd(bOut, FDC_REG_OUTPUT_ENABLE) = 0
              THEN FDC_initController(m)
              ELSE IF BitAnd(m.fdc.regOutput, FDC_REG_OUTPUT_ENABLE) = 0
                      /\ BitAnd(m.fdc.regOutput, FDC_REG_OUTPUT_INT_ENABLE) # 0
              THEN setIRR(m, IRQ_FDC)
              ELSE m
        iDrive == BitAnd(bOut, FDC_REG_OUTPUT_SELECT)
        m2 == IF BitAnd(bOut, Shl(FDC_REG_OUTPUT_MOTOR_A, iDrive)) # 0
              THEN [m1 EXCEPT !.fdc.iDrive = iDrive] ELSE m1
    IN  [m2 EXCEPT !.fdc.regOutput = bOut]

\* FDC_inFDCStatus made to acknowledge the interrupt as it returns the value
FDC_inFDCStatus_Clearing(m) ==
    [m |-> clearIRR(m, IRQ_FDC), b |-> m.fdc.regStatus]

\* FDC.prototype.inFDCStatus(port, addrFrom): the value read
FDC_inFDCStatus(m) == [m |-> m, b |-> m.fdc.regStatus]

\* FDC_inFDCData that goes on counting the bytes read once the FIFO is drained
FDC_inFDCData_Counting(m) ==
    LET f == m.fdc
        bIn == IF f.regDataIndex < f.regDataTotal
               THEN f.regDataArray[f.regDataIndex] ELSE 0
        m1 == IF BitAnd(f.regOutput, FDC_REG_OUTPUT_INT_ENABLE) # 0
              THEN clearIRR(m, IRQ_FDC) ELSE m
    IN  [m |-> [m1 EXCEPT !.fdc.regDataIndex = @ + 1], b |-> bIn]

\* FDC.prototype.inFDCData(port, addrFrom): the value read
FDC_inFDCData(m) ==
    LET f == m.fdc
        bIn == IF f.regDataIndex < f.regDataTotal
               THEN f.regDataArray[f.regDataIndex] ELSE 0
        m1 == IF BitAnd(f.regOutput, FDC_REG_OUTPUT_INT_ENABLE) # 0
              THEN clearIRR(m, IRQ_FDC) ELSE m
    IN  [m |-> IF f.regDataIndex + 1 >= f.regDataTotal
               THEN [m1 EXCEPT !.fdc.regStatus =
                            BitClear(@, BitOr(FDC_REG_STATUS_READ_DATA, FDC_REG_STATUS_BUSY)),
                               !.fdc.regDataIndex = 0,
                               !.fdc.regDataTotal = 0]
               ELSE [m1 EXCEPT !.fdc.regDataIndex = @ + 1],
         b |-> bIn]

\* whether the first byte in the FIFO is a command of FDC.aCmdSeqs
FDC_fSupported(bCmd) == BitAnd(bCmd, FDC_CMD_MASK) \in DOMAIN FDC_aCmdSeqs

\* FDC_outFDCData made to answer an unsupported first byte with a Result
\* Phase of one byte, the ST0 value 0x80 of an invalid command
FDC_outFDCData_Invalid(m, bOut, p) ==
    LET m1 == IF m.fdc.regDataTotal < FDC_FIFO
              THEN [m EXCEPT !.fdc.regDataArray[m.fdc.regDataTotal] = bOut,
                             !.fdc.regDataTotal = @ + 1]
              ELSE m
        bCmd == m1.fdc.regDataArray[0]
    IN  IF ~FDC_fSupported(bCmd)
        THEN FDC_setStatus(FDC_pushResult(FDC_beginResult(m1), 128))
        ELSE IF m1.fdc.regDataTotal
                  >= FDC_aCmdSeqs[BitAnd(bCmd, FDC_CMD_MASK)].cbWrite
        THEN FDC_doCmd(m1, p)
        ELSE m1

\* FDC_outFDCData that executes the command one byte late
FDC_outFDCData_Late(m, bOut, p) ==
    LET m1 == IF m.fdc.regDataTotal < FDC_FIFO
              THEN [m EXCEPT !.fdc.regDataArray[m.fdc.regDataTotal] = bOut,
                             !.fdc.regDataTotal = @ + 1]
              ELSE m
        bCmd == m1.fdc.regDataArray[0]
    IN  IF FDC_fSupported(bCmd)
           /\ m1.fdc.regDataTotal > FDC_aCmdSeqs[BitAnd(bCmd, FDC_CMD_MASK)].cbWrite
        THEN FDC_doCmd(m1, p)
        ELSE m1

\* FDC.prototype.outFDCData(port, bOut, addrFrom)
FDC_outFDCData(m, bOut, p) ==
    LET m1 == IF m.fdc.regDataTotal < FDC_FIFO
              THEN [m EXCEPT !.fdc.regDataArray[m.fdc.regDataTotal] = bOut,
                             !.fdc.regDataTotal = @ + 1]
              ELSE m
        bCmd == m1.fdc.regDataArray[0]
    IN  IF FDC_fSupported(bCmd)
           /\ m1.fdc.regDataTotal >= FDC_aCmdSeqs[BitAnd(bCmd, FDC_CMD_MASK)].cbWrite
        THEN FDC_doCmd(m1, p)
        ELSE m1

(***************************************************************************)
(* HDC: command execution of the XT controller.                            *)
(***************************************************************************)
\* the status byte done() is called with when no session is opened
HDC_bStatus(d) ==
    IF d.errorCode # XTC_ERR_NONE THEN XTC_DATA_STATUS_ERROR ELSE XTC_DATA_STATUS_OK

\* HDC_doDMARead that takes the DMA controller to be there
HDC_doDMARead_Connected(m, iD, bDrive, p) ==
    IF m.hdrv[iD].disk # NoDisk
    THEN requestDMA(connectDMA([m EXCEPT !.hdrv[iD].sector = Null,
                                         !.hdrv[iD].errorCode = XTC_ERR_NONE],
                               "HDC", "dmaRead", iD),
                    [kind |-> "doDMARead", iDrive |-> iD, bDrive |-> bDrive], p)
    ELSE HDC_beginResult([m EXCEPT !.hdrv[iD].errorCode = XTC_ERR_NOT_READY],
                         BitOr(XTC_DATA_STATUS_ERROR, bDrive))

\* HDC.prototype.doDMARead(drive, done), done being the function of doXTC
HDC_doDMARead(m, iD, bDrive, p) ==
    IF m.hdrv[iD].disk # NoDisk /\ m.hdc.chipset
    THEN requestDMA(connectDMA([m EXCEPT !.hdrv[iD].sector = Null,
                                         !.hdrv[iD].errorCode = XTC_ERR_NONE],
                               "HDC", "dmaRead", iD),
                    [kind |-> "doDMARead", iDrive |-> iD, bDrive |-> bDrive], p)
    ELSE HDC_beginResult([m EXCEPT !.hdrv[iD].errorCode = XTC_ERR_NOT_READY],
                         BitOr(XTC_DATA_STATUS_ERROR, bDrive))

\* HDC.prototype.doDMAWrite(drive, done), done being the function of doXTC
HDC_doDMAWrite(m, iD, bDrive, p) ==
    IF m.hdrv[iD].disk # NoDisk /\ m.hdc.chipset
    THEN requestDMA(connectDMA([m EXCEPT !.hdrv[iD].sector = Null,
                                         !.hdrv[iD].errorCode = XTC_ERR_NONE],
                               "HDC", "dmaWrite", iD),
                    [kind |-> "doDMAWrite", iDrive |-> iD, bDrive |-> bDrive], p)
    ELSE HDC_beginResult([m EXCEPT !.hdrv[iD].errorCode = XTC_ERR_NOT_READY],
                         BitOr(XTC_DATA_STATUS_ERROR, bDrive))

\* HDC.prototype.doDMAWriteBuffer(drive, done), done being the function of
\* doXTC; of the buffer abSector the model keeps the length, the number of
\* bytes stored and the last byte stored
HDC_doDMAWriteBuffer(m, iD, bDrive, p) ==
    LET d == m.hdrv[iD]
        ab == IF d.abSector = NoBuffer \/ d.abSector.length # d.nBytes
              THEN [length |-> d.nBytes, cb |-> 0, b |-> Undefined]
              ELSE d.abSector
    IN  IF m.hdc.chipset
        THEN requestDMA(connectDMA([m EXCEPT !.hdrv[iD].abSector = ab,
                                             !.hdrv[iD].ibSector = 0,
                                             !.hdrv[iD].errorCode = XTC_ERR_NONE],
                                   "HDC", "dmaWriteBuffer", iD),
                        [kind |-> "doDMAWriteBuffer", iDrive |-> iD,
                         bDrive |-> bDrive], p)
        ELSE HDC_beginResult([m EXCEPT !.hdrv[iD].errorCode = XTC_ERR_NOT_READY],
                             BitOr(XTC_DATA_STATUS_ERROR, bDrive))

\* the eight drive parameters of INIT_DRIVE, bytes 6..13 of the command
HDC_initParms(m, iD) ==
    [m EXCEPT !.hdrv[iD].abDriveParms =
        [i \in 0..(HDC_DRIVE_PARMS - 1) |->
            IF HDC_popCmd(m.hdc, XTC_CMD_LENGTH + i) >= 0
            THEN HDC_popCmd(m.hdc, XTC_CMD_LENGTH + i) ELSE @[i]]]

\* HDC_doXTC whose INIT_DRIVE leaves iDriveAllowFail armed after it failed
HDC_doXTC_Sticky(m, p) ==
    LET h == m.hdc
        bCmd == HDC_popCmd(h, 0)
        b1 == HDC_popCmd(h, 1)
        bDrive == BitAnd(b1, 32)
        iD == Shr(bDrive, 5)
        bHead == BitAnd(b1, 31)
        b2 == HDC_popCmd(h, 2)
        b3 == HDC_popCmd(h, 3)
        wCylinder == BitOr(BitAnd(Shl(b2, 2), 768), b3)
        bSector == BitAnd(b2, 63)
        bCount == HDC_popCmd(h, 4)
        bControl == HDC_popCmd(h, 5)
        fDrive == iD \in DOMAIN m.hdrv
        m0 == [m EXCEPT !.hdc.regDataIndex = XTC_CMD_LENGTH]
        m1 == IF fDrive
              THEN [m0 EXCEPT !.hdrv[iD].wCylinder = wCylinder,
                              !.hdrv[iD].bHead = bHead,
                              !.hdrv[iD].bSector = bSector,
                              !.hdrv[iD].nBytes = bCount * m.hdrv[iD].cbSector]
              ELSE m0
        m2 == IF fDrive
              THEN [m1 EXCEPT !.hdrv[iD].errorCode = XTC_ERR_NONE,
                              !.hdrv[iD].senseCode = 0]
              ELSE m1
    IN  CASE bCmd = XTC_CMD_REQUEST_SENSE ->
                HDC_pushResult(HDC_pushResult(HDC_pushResult(HDC_pushResult(
                    HDC_beginResult(m1, IF fDrive THEN m1.hdrv[iD].errorCode
                                        ELSE XTC_ERR_NOT_READY),
                    b1), b2), b3), BitOr(XTC_DATA_STATUS_OK, bDrive))
          [] bCmd = XTC_CMD_INIT_DRIVE ->
                IF fDrive
                THEN HDC_beginResult(HDC_verifyDrive(HDC_initParms(m1, iD), iD),
                                     BitOr(XTC_DATA_STATUS_OK, bDrive))
                ELSE IF h.iDriveAllowFail = iD
                THEN HDC_beginResult(m1, BitOr(XTC_DATA_STATUS_ERROR, bDrive))
                ELSE HDC_beginResult(m1, BitOr(XTC_DATA_STATUS_OK, bDrive))
          [] bCmd \in {XTC_CMD_RAM_DIAGNOSTIC, XTC_CMD_CTL_DIAGNOSTIC} ->
                HDC_beginResult(m1, BitOr(XTC_DATA_STATUS_OK, bDrive))
          [] OTHER ->
            IF ~fDrive
            THEN HDC_beginResult(m2, BitOr(XTC_DATA_STATUS_ERROR, bDrive))
            ELSE
            CASE bCmd \in {XTC_CMD_TEST_READY, XTC_CMD_READ_VERF} ->
                HDC_beginResult(m2, BitOr(XTC_DATA_STATUS_OK, bDrive))
          [] bCmd = XTC_CMD_RECALIBRATE ->
                HDC_beginResult([m2 EXCEPT !.hdrv[iD].bControl = bControl],
                                BitOr(XTC_DATA_STATUS_OK, bDrive))
          [] bCmd = XTC_CMD_READ_DATA -> HDC_doDMARead(m2, iD, bDrive, p)
          [] bCmd = XTC_CMD_WRITE_DATA -> HDC_doDMAWrite(m2, iD, bDrive, p)
          [] bCmd = XTC_CMD_WRITE_BUFFER -> HDC_doDMAWriteBuffer(m2, iD, bDrive, p)
          [] OTHER -> HDC_beginResult(m2, BitOr(XTC_DATA_STATUS_ERROR, bDrive))

\* HDC_doXTC that leaves the drive's errorCode and senseCode as the previous
\* command left them
HDC_doXTC_Keeping(m, p) ==
    LET h == m.hdc
        bCmd == HDC_popCmd(h, 0)
        b1 == HDC_popCmd(h, 1)
        bDrive == BitAnd(b1, 32)
        iD == Shr(bDrive, 5)
        bHead == BitAnd(b1, 31)
        b2 == HDC_popCmd(h, 2)
        b3 == HDC_popCmd(h, 3)
        wCylinder == BitOr(BitAnd(Shl(b2, 2), 768), b3)
        bSector == BitAnd(b2, 63)
        bCount == HDC_popCmd(h, 4)
        bControl == HDC_popCmd(h, 5)
        fDrive == iD \in DOMAIN m.hdrv
        m0 == [m EXCEPT !.hdc.regDataIndex = XTC_CMD_LENGTH]
        m1 == IF fDrive
              THEN [m0 EXCEPT !.hdrv[iD].wCylinder = wCylinder,
                              !.hdrv[iD].bHead = bHead,
                              !.hdrv[iD].bSector = bSector,
                              !.hdrv[iD].nBytes = bCount * m.hdrv[iD].cbSector]
              ELSE m0
        m2 == m1
    IN  CASE bCmd = XTC_CMD_REQUEST_SENSE ->
                HDC_pushResult(HDC_pushResult(HDC_pushResult(HDC_pushResult(
                    HDC_beginResult(m1, IF fDrive THEN m1.hdrv[iD].errorCode
                                        ELSE XTC_ERR_NOT_READY),
                    b1), b2), b3), BitOr(XTC_DATA_STATUS_OK, bDrive))
          [] bCmd = XTC_CMD_INIT_DRIVE ->
                IF fDrive
                THEN HDC_beginResult(HDC_verifyDrive(HDC_initParms(m1, iD), iD),
                                     BitOr(XTC_DATA_STATUS_OK, bDrive))
                ELSE IF h.iDriveAllowFail = iD
                THEN HDC_beginResult([m1 EXCEPT !.hdc.iDriveAllowFail = 0 - 1],
                                     BitOr(XTC_DATA_STATUS_ERROR, bDrive))
                ELSE HDC_beginResult(m1, BitOr(XTC_DATA_STATUS_OK, bDrive))
          [] bCmd \in {XTC_CMD_RAM_DIAGNOSTIC, XTC_CMD_CTL_DIAGNOSTIC} ->
                HDC_beginResult(m1, BitOr(XTC_DATA_STATUS_OK, bDrive))
          [] OTHER ->
            IF ~fDrive
            THEN HDC_beginResult(m2, BitOr(XTC_DATA_STATUS_ERROR, bDrive))
            ELSE
            CASE bCmd \in {XTC_CMD_TEST_READY, XTC_CMD_READ_VERF} ->
                HDC_beginResult(m2, BitOr(XTC_DATA_STATUS_OK, bDrive))
          [] bCmd = XTC_CMD_RECALIBRATE ->
                HDC_beginResult([m2 EXCEPT !.hdrv[iD].bControl = bControl],
                                BitOr(XTC_DATA_STATUS_OK, bDrive))
          [] bCmd = XTC_CMD_READ_DATA -> HDC_doDMARead(m2, iD, bDrive, p)
          [] bCmd = XTC_CMD_WRITE_DATA -> HDC_doDMAWrite(m2, iD, bDrive, p)
          [] bCmd = XTC_CMD_WRITE_BUFFER -> HDC_doDMAWriteBuffer(m2, iD, bDrive, p)
          [] OTHER -> HDC_beginResult(m2, BitOr(XTC_DATA_STATUS_ERROR, bDrive))

\* HDC.prototype.doXTC()
HDC_doXTC(m, p) ==
    LET h == m.hdc
        bCmd == HDC_popCmd(h, 0)
        b1 == HDC_popCmd(h, 1)
        bDrive == BitAnd(b1, 32)
        iD == Shr(bDrive, 5)
        bHead == BitAnd(b1, 31)
        b2 == HDC_popCmd(h, 2)
        b3 == HDC_popCmd(h, 3)
        wCylinder == BitOr(BitAnd(Shl(b2, 2), 768), b3)
        bSector == BitAnd(b2, 63)
        bCount == HDC_popCmd(h, 4)
        bControl == HDC_popCmd(h, 5)
        fDrive == iD \in DOMAIN m.hdrv
        m0 == [m EXCEPT !.hdc.regDataIndex = XTC_CMD_LENGTH]
        m1 == IF fDrive
              THEN [m0 EXCEPT !.hdrv[iD].wCylinder = wCylinder,
                              !.hdrv[iD].bHead = bHead,
                              !.hdrv[iD].bSector = bSector,
                              !.hdrv[iD].nBytes = bCount * m.hdrv[iD].cbSector]
              ELSE m0
        m2 == IF fDrive
              THEN [m1 EXCEPT !.hdrv[iD].errorCode = XTC_ERR_NONE,
                              !.hdrv[iD].senseCode = 0]
              ELSE m1
    IN  CASE bCmd = XTC_CMD_REQUEST_SENSE ->
                HDC_pushResult(HDC_pushResult(HDC_pushResult(HDC_pushResult(
                    HDC_beginResult(m1, IF fDrive THEN m1.hdrv[iD].errorCode
                                        ELSE XTC_ERR_NOT_READY),
                    b1), b2), b3), BitOr(XTC_DATA_STATUS_OK, bDrive))
          [] bCmd = XTC_CMD_INIT_DRIVE ->
                IF fDrive
                THEN HDC_beginResult(HDC_verifyDrive(HDC_initParms(m1, iD), iD),
                                     BitOr(XTC_DATA_STATUS_OK, bDrive))
                ELSE IF h.iDriveAllowFail = iD
                THEN HDC_beginResult([m1 EXCEPT !.hdc.iDriveAllowFail = 0 - 1],
                                     BitOr(XTC_DATA_STATUS_ERROR, bDrive))
                ELSE HDC_beginResult(m1, BitOr(XTC_DATA_STATUS_OK, bDrive))
          [] bCmd \in {XTC_CMD_RAM_DIAGNOSTIC, XTC_CMD_CTL_DIAGNOSTIC} ->
                HDC_beginResult(m1, BitOr(XTC_DATA_STATUS_OK, bDrive))
          [] OTHER ->
            IF ~fDrive
            THEN HDC_beginResult(m2, BitOr(XTC_DATA_STATUS_ERROR, bDrive))
            ELSE
            CASE bCmd \in {XTC_CMD_TEST_READY, XTC_CMD_READ_VERF} ->
                HDC_beginResult(m2, BitOr(XTC_DATA_STATUS_OK, bDrive))
          [] bCmd = XTC_CMD_RECALIBRATE ->
                HDC_beginResult([m2 EXCEPT !.hdrv[iD].bControl = bControl],
                                BitOr(XTC_DATA_STATUS_OK, bDrive))
          [] bCmd = XTC_CMD_READ_DATA -> HDC_doDMARead(m2, iD, bDrive, p)
          [] bCmd = XTC_CMD_WRITE_DATA -> HDC_doDMAWrite(m2, iD, bDrive, p)
          [] bCmd = XTC_CMD_WRITE_BUFFER -> HDC_doDMAWriteBuffer(m2, iD, bDrive, p)
          [] OTHER -> HDC_beginResult(m2, BitOr(XTC_DATA_STATUS_ERROR, bDrive))

(***************************************************************************)
(* HDC: port handlers of the XT controller.                                *)
(***************************************************************************)
\* HDC.prototype.inXTCData(port, addrFrom): the value read
HDC_inXTCData(m) ==
    LET h == m.hdc
        bIn == IF h.regDataIndex < h.regDataTotal
               THEN h.regDataArray[h.regDataIndex] ELSE 0
        m1 == [clearIRR(m, IRQ_XTC) EXCEPT
                  !.hdc.regStatus = BitClear(@, XTC_STATUS_INTERRUPT)]
    IN  [m |-> IF h.regDataIndex + 1 >= h.regDataTotal
               THEN [m1 EXCEPT !.hdc.regDataIndex = 0,
                               !.hdc.regDataTotal = 0,
                               !.hdc.regStatus =
                                  BitClear(@, BitOr(XTC_STATUS_IOMODE,
                                               BitOr(XTC_STATUS_BUS, XTC_STATUS_BUSY)))]
               ELSE [m1 EXCEPT !.hdc.regDataIndex = @ + 1],
         b |-> bIn]

\* HDC.prototype.outXTCData(port, bOut, addrFrom)
HDC_outXTCData(m, bOut, p) ==
    LET m1 == IF m.hdc.regDataTotal < XTC_FIFO
              THEN [m EXCEPT !.hdc.regDataArray[m.hdc.regDataTotal] = bOut,
                             !.hdc.regDataTotal = @ + 1]
              ELSE m
        cbCmd == IF m1.hdc.regDataArray[0] # XTC_CMD_INIT_DRIVE
                 THEN XTC_CMD_LENGTH ELSE XTC_FIFO
        m2 == IF m1.hdc.regDataTotal = XTC_CMD_LENGTH
              THEN [m1 EXCEPT !.hdc.regStatus = BitClear(@, XTC_STATUS_REQ)]
              ELSE m1
    IN  IF m2.hdc.regDataTotal >= cbCmd
        THEN HDC_doXTC([m2 EXCEPT !.hdc.regStatus =
                            BitClear(BitOr(@, XTC_STATUS_IOMODE), XTC_STATUS_REQ)], p)
        ELSE m2

\* HDC.prototype.inXTCStatus(port, addrFrom): the value read
HDC_inXTCStatus(m) ==
    [m |-> IF m.hdc.regDataIndex < m.hdc.regDataTotal
           THEN [m EXCEPT !.hdc.regStatus = BitOr(@, XTC_STATUS_REQ)] ELSE m,
     b |-> m.hdc.regStatus]

\* HDC.prototype.outXTCReset(port, bOut, addrFrom)
HDC_outXTCReset(m, bOut) ==
    HDC_initController(clearIRR([m EXCEPT !.hdc.regReset = bOut], IRQ_XTC))

\* HDC.prototype.outXTCPulse(port, bOut, addrFrom)
HDC_outXTCPulse(m, bOut) ==
    [m EXCEPT !.hdc.regPulse = bOut,
              !.hdc.regStatus = BitOr(XTC_STATUS_REQ,
                                      BitOr(XTC_STATUS_BUS, XTC_STATUS_BUSY))]

(***************************************************************************)
(* HDC: the AT controller.                                                 *)
(***************************************************************************)
\* HDC_setATCIRR that ignores the interrupt-disable bit of the Fixed Disk
\* Register
HDC_setATCIRR_Always(m) ==
    IF m.hdc.chipset THEN setIRR(m, IRQ_ATC) ELSE m

\* HDC.prototype.setATCIRR(fWrite)
HDC_setATCIRR(m) ==
    IF m.hdc.chipset /\ BitAnd(m.hdc.regFDR, ATC_FDR_INT_DISABLE) = 0
    THEN setIRR(m, IRQ_ATC) ELSE m

\* the READ_DATA case of doATC: the first byte of the sector is read ahead
\* (without auto-increment) and its arrival raises the interrupt
HDC_doATCRead(m, iD) ==
    LET r == HDC_readByte([m EXCEPT !.hdc.regStatus =
                              BitOr(ATC_STATUS_BUSY, ATC_STATUS_DATA_REQ)], iD, 0)
    IN  IF r.b >= 0
        THEN [HDC_setATCIRR(r.m) EXCEPT
                !.hdc.regStatus = BitOr(ATC_STATUS_READY, ATC_STATUS_SEEK_OK)]
        ELSE [r.m EXCEPT !.hdc.regStatus = ATC_STATUS_ERROR,
                         !.hdc.regError = ATC_ERROR_NO_CHS]

\* doATC() up to its switch: the task file is copied to the drive selected,
\* which becomes the current drive; without that drive only the registers
\* are set
HDC_beginATC(m) ==
    LET h == m.hdc
        iD == IF BitAnd(h.regDrvHd, ATC_DRVHD_DRIVE_MASK) # 0 THEN 1 ELSE 0
        nHead == BitAnd(h.regDrvHd, ATC_DRVHD_HEAD_MASK)
        nCylinder == BitOr(h.regCylLo, Shl(BitAnd(h.regCylHi, ATC_CYLHI_MASK), 8))
        nSectors == IF h.regSecCnt # 0 THEN h.regSecCnt ELSE ATC_SECTORS_MAX
        fDrive == iD \in DOMAIN m.hdrv
        m1 == [m EXCEPT !.hdc.drive = IF fDrive THEN iD ELSE Undefined,
                        !.hdc.regError = ATC_ERROR_NONE,
                        !.hdc.regStatus = BitOr(ATC_STATUS_READY, ATC_STATUS_SEEK_OK)]
    IN  IF fDrive
        THEN [m1 EXCEPT !.hdrv[iD].wCylinder = nCylinder,
                        !.hdrv[iD].bHead = nHead,
                        !.hdrv[iD].bSector = h.regSecNum,
                        !.hdrv[iD].nBytes = nSectors * m.hdrv[iD].cbSector,
                        !.hdrv[iD].sector = Null,
                        !.hdrv[iD].ibSector = 0,
                        !.hdrv[iD].errorCode = 0]
        ELSE m1

\* HDC.prototype.doATC()
HDC_doATC(m) ==
    LET h == m.hdc
        iD == IF BitAnd(h.regDrvHd, ATC_DRVHD_DRIVE_MASK) # 0 THEN 1 ELSE 0
        nHead == BitAnd(h.regDrvHd, ATC_DRVHD_HEAD_MASK)
        nSectors == IF h.regSecCnt # 0 THEN h.regSecCnt ELSE ATC_SECTORS_MAX
        fDrive == iD \in DOMAIN m.hdrv
        bCmd == IF h.regCommand >= ATC_COMMAND_DIAGNOSE THEN h.regCommand
                ELSE BitAnd(h.regCommand, ATC_COMMAND_MASK)
        c == BitAnd(bCmd, ATC_COMMAND_MASK)
        m2 == HDC_beginATC(m)
    IN  IF ~fDrive THEN m2
        ELSE IF c = ATC_COMMAND_READ_DATA
        THEN IF m.hdc.chipset THEN HDC_doATCRead(m2, iD)
             ELSE [HDC_doATCRead(m2, iD) EXCEPT
                      !.hdc.regStatus = ATC_STATUS_ERROR,
                      !.hdc.regError = ATC_ERROR_NO_CHS]
        ELSE IF c = ATC_COMMAND_WRITE_DATA
        THEN [m2 EXCEPT !.hdc.regStatus = ATC_STATUS_DATA_REQ]
        ELSE IF c \in {ATC_COMMAND_RESTORE, ATC_COMMAND_READ_VERF}
        THEN HDC_setATCIRR(m2)
        ELSE IF c = ATC_COMMAND_DIAGNOSE
        THEN HDC_setATCIRR([m2 EXCEPT !.hdc.regError = ATC_DIAG_NO_ERROR])
        ELSE IF c = ATC_COMMAND_SETPARMS
        THEN HDC_setATCIRR([m2 EXCEPT !.hdrv[iD].nHeads = nHead + 1,
                                      !.hdrv[iD].nSectors = nSectors])
        ELSE m2

\* HDC.prototype.outATCDrvHd(port, bOut, addrFrom)
HDC_outATCDrvHd(m, bOut) ==
    LET iD == IF BitAnd(bOut, ATC_DRVHD_DRIVE_MASK) # 0 THEN 1 ELSE 0
    IN  [m EXCEPT !.hdc.regDrvHd = bOut,
                  !.hdc.regStatus = IF iD \in DOMAIN m.hdrv
                                    THEN BitOr(@, ATC_STATUS_READY)
                                    ELSE BitClear(@, ATC_STATUS_READY)]

\* HDC.prototype.outATCSecNum(port, bOut, addrFrom)
HDC_outATCSecNum(m, bOut) == [m EXCEPT !.hdc.regSecNum = bOut]

\* HDC.prototype.outATCSecCnt(port, bOut, addrFrom)
HDC_outATCSecCnt(m, bOut) == [m EXCEPT !.hdc.regSecCnt = bOut]

\* HDC.prototype.inATCStatus(port, addrFrom): the value read
HDC_inATCStatus(m) == [m |-> m, b |-> m.hdc.regStatus]

\* HDC.prototype.outATCCommand(port, bOut, addrFrom)
HDC_outATCCommand(m, bOut) ==
    HDC_doATC(clearIRR([m EXCEPT !.hdc.regCommand = bOut], IRQ_ATC))

\* HDC.prototype.outATCFDR(port, bOut, addrFrom)
HDC_outATCFDR(m, bOut) ==
    [m EXCEPT !.hdc.regFDR = bOut,
              !.hdc.regError =
                 IF BitAnd(m.hdc.regFDR, ATC_FDR_RESET) # 0
                    /\ BitAnd(bOut, ATC_FDR_RESET) = 0
                 THEN ATC_DIAG_NO_ERROR ELSE @]

\* HDC.prototype.readByte(drive) as inATCData calls it, with no done(): the
\* next byte of the current sector, or -1; no other sector is sought
HDC_readByteSync(m, iD) ==
    LET d == m.hdrv[iD]
    IN  IF d.errorCode # XTC_ERR_NONE \/ d.sector = Null
        THEN [m |-> m, b |-> 0 - 1]
        ELSE [m |-> [m EXCEPT !.hdrv[iD].ibSector = @ + 1],
              b |-> DiskRead(m.img[d.disk], d.sector, d.ibSector)]

\* HDC_endATCRead that takes the sector just read for one byte short
HDC_endATCRead_Short(m, iD) ==
    LET m1 == [m EXCEPT !.hdrv[iD].nBytes = @ - (m.hdrv[iD].cbSector - 1),
                        !.hdc.regSecCnt = (@ - 1) % 256]
    IN  IF m1.hdrv[iD].nBytes >= m1.hdrv[iD].cbSector
        THEN HDC_doATCRead(m1, iD)
        ELSE [m1 EXCEPT !.hdc.regStatus =
                            BitOr(ATC_STATUS_READY, ATC_STATUS_SEEK_OK)]

\* inATCData() at the end of a sector: the byte count is reduced by a sector
\* and, while sectors remain, the first byte of the next one is read ahead
HDC_endATCRead(m, iD) ==
    LET m1 == [m EXCEPT !.hdrv[iD].nBytes = @ - m.hdrv[iD].cbSector,
                        !.hdc.regSecCnt = (@ - 1) % 256]
    IN  IF m1.hdrv[iD].nBytes >= m1.hdrv[iD].cbSector
        THEN HDC_doATCRead(m1, iD)
        ELSE [m1 EXCEPT !.hdc.regStatus =
                            BitOr(ATC_STATUS_READY, ATC_STATUS_SEEK_OK)]

\* what inATCData() does once readByte() has returned as r
HDC_afterATCRead(r, iD) ==
    [m |-> IF r.m.hdrv[iD].ibSector # 1
              /\ r.m.hdrv[iD].ibSector = r.m.hdrv[iD].cbSector
           THEN HDC_endATCRead(r.m, iD) ELSE r.m,
     b |-> r.b]

\* HDC.prototype.inATCData(port, addrFrom): the value read
HDC_inATCData(m) ==
    IF m.hdc.drive = Undefined THEN [m |-> m, b |-> 0 - 1]
    ELSE HDC_afterATCRead(HDC_readByteSync(m, m.hdc.drive), m.hdc.drive)

\* outATCData() at the end of a sector: the byte count is reduced by a
\* sector, the interrupt raised and, while sectors remain, data requested
HDC_endATCWrite(m, iD) ==
    LET m1 == HDC_setATCIRR(
                [m EXCEPT !.hdrv[iD].nBytes = @ - m.hdrv[iD].cbSector,
                          !.hdc.regSecCnt = (@ - 1) % 256])
    IN  [m1 EXCEPT !.hdc.regStatus =
            IF m1.hdrv[iD].nBytes >= m1.hdrv[iD].cbSector
            THEN BitOr(BitOr(ATC_STATUS_READY, ATC_STATUS_SEEK_OK),
                       ATC_STATUS_DATA_REQ)
            ELSE BitOr(ATC_STATUS_READY, ATC_STATUS_SEEK_OK)]

\* what outATCData() does once writeByte() has returned as w
HDC_afterATCWrite(w, iD) ==
    IF w.b < 0
    THEN [w.m EXCEPT !.hdc.regStatus = ATC_STATUS_ERROR,
                     !.hdc.regError = ATC_ERROR_NO_CHS]
    ELSE IF w.m.hdrv[iD].ibSector # 1
            /\ w.m.hdrv[iD].ibSector = w.m.hdrv[iD].cbSector
    THEN HDC_endATCWrite(w.m, iD)
    ELSE w.m

\* HDC.prototype.outATCData(port, bOut, addrFrom)
HDC_outATCData(m, bOut) ==
    IF m.hdc.drive = Undefined THEN m
    ELSE IF m.hdrv[m.hdc.drive].nBytes >= m.hdrv[m.hdc.drive].cbSector
    THEN HDC_afterATCWrite(HDC_writeByte(m, m.hdc.drive, bOut), m.hdc.drive)
    ELSE m

\* the host's REP INSW: n reads of the Data register one after the other
\* (unfolded by halves); with no drive selected a read changes nothing
RECURSIVE ATC_RepIn(_, _)
ATC_RepIn(m, n) ==
    IF m.hdc.drive = Undefined \/ n = 0 THEN m
    ELSE IF n = 1 THEN HDC_inATCData(m).m
    ELSE ATC_RepIn(ATC_RepIn(m, n \div 2), n - (n \div 2))

\* the host's REP OUTSW: n writes of bOut to the Data register one after the
\* other (unfolded by halves); with no drive selected a write changes nothing
RECURSIVE ATC_RepOut(_, _, _)
ATC_RepOut(m, bOut, n) ==
    IF m.hdc.drive = Undefined \/ n = 0 THEN m
    ELSE IF n = 1 THEN HDC_outATCData(m, bOut)
    ELSE ATC_RepOut(ATC_RepOut(m, bOut, n \div 2), bOut, n - (n \div 2))

(***************************************************************************)
(* The machine state handed to the handlers, and its write-back.           *)
(***************************************************************************)
Machine ==
    [fdc |-> fdc, drv |-> fdrives, hdc |-> hdc, hdrv |-> hdrives,
     img |-> images, dma |-> dma, irr |-> irr]

Commit(m) ==
    /\ fdc' = m.fdc
    /\ fdrives' = m.drv
    /\ hdc' = m.hdc
    /\ hdrives' = m.hdrv
    /\ images' = m.img
    /\ dma' = m.dma
    /\ irr' = m.irr

\* the controller a machine does not have
NoController == [kind |-> "none"]

\* History kept beside the program state: whether the step just taken was a
\* read of the FDC Main Status or the ATC Status register (fPolled), the
\* command executed by the step just taken (cmd), the commands begun so far
\* (cCmds), the session that was open when the controller was last reset
\* (idReset, 0 if none) and the C/H/R/N/EOT bytes of a READ_DATA for unit 0,
\* head 0 whose results the host has not touched yet (req)
NoHistory ==
    [fPolled |-> FALSE, cmd |-> Undefined, cCmds |-> 0, idReset |-> 0,
     req |-> <<>>]

(***************************************************************************)
(* The host of the FDC and its DMA peer: the inputs of the handlers.       *)
(***************************************************************************)
\* first bytes a host writes: the eight supported commands (READ_DATA,
\* WRITE_DATA and FORMAT_TRACK with the MT/MF/SK bits the BIOS sets) and
\* READ_TRACK, which FDC.aCmdSeqs does not list
HostOpcodes == {3, 4, 197, 230, 7, 8, 77, 15, 2}

\* unit-select bytes: unit 0 (image A) and unit 1 (empty); WRITE_DATA also
\* addresses unit 2 (image B, write-protected)
HostUnits == {0, 1}

\* the bytes a host may write at position i of the command whose first byte
\* is bCmd
HostBytes(bCmd, i) ==
    LET c == BitAnd(bCmd, FDC_CMD_MASK)
    IN  IF i = 0 THEN HostOpcodes
        ELSE IF ~FDC_fSupported(bCmd) THEN {0}
        ELSE IF i = 1 /\ c = FDC_CMD_WRITE_DATA THEN HostUnits \cup {2}
        ELSE IF i = 1 /\ c # FDC_CMD_SPECIFY THEN HostUnits
        ELSE IF c \in {FDC_CMD_READ_DATA, FDC_CMD_WRITE_DATA}
        THEN CASE i = 4 -> {1, DiskSectors}
               [] i = 5 -> {DiskSizeCode}
               [] i = 6 -> {DiskSectors}
               [] OTHER -> {0}
        ELSE IF c = FDC_CMD_FORMAT_TRACK
        THEN CASE i = 2 -> {DiskSizeCode}
               [] i = 3 -> 1..DiskSectors
               [] i = 5 -> {246}
               [] OTHER -> {0}
        ELSE IF c = FDC_CMD_SEEK /\ i = 2 THEN {0, 1}
        ELSE {0}

\* values a host writes to the Output register: reset, and enabled with and
\* without interrupts
HostOutputs == {0, 4, 12}

\* a peer that is not asked anything
NoPeer == [fNow |-> TRUE, fAbort |-> FALSE, cb |-> 0, b |-> 0, ids |-> <<>>]

\* sector identifiers C/H/R/N a format peer supplies
FormatIds == {<<0, 0, s, DiskSizeCode>> : s \in 1..DiskSectors}

\* byte counts the peer of the fixed disk controller is programmed with: a
\* byte, a sector, and a byte more than a sector
HDC_PeerCounts == {1, HDC_CBSECTOR, HDC_CBSECTOR + 1}

\* the ways the peer can be programmed for the function connected; the FDC
\* registers no continuation, so a peer that closes its session without
\* moving a byte leaves the FDC as the open session does
PeerChoices(component, fn) ==
    IF component = "HDC" /\ fn # "none"
    THEN {[fNow |-> f, fAbort |-> a, cb |-> n, b |-> 229, ids |-> <<>>] :
            f \in BOOLEAN, a \in BOOLEAN, n \in HDC_PeerCounts}
    ELSE IF fn = "dmaFormat"
    THEN {[fNow |-> f, fAbort |-> FALSE, cb |-> FORMAT_ID * Len(s), b |-> 0,
           ids |-> s] :
            f \in BOOLEAN,
            s \in UNION {[1..k -> FormatIds] : k \in 1..DiskSectors}}
    ELSE IF fn \in {"dmaRead", "dmaWrite"}
    THEN {[fNow |-> f, fAbort |-> FALSE, cb |-> k * cbDiskSector, b |-> 229,
           ids |-> <<>>] :
            f \in BOOLEAN, k \in 1..DiskSectors}
    ELSE {NoPeer}

\* the masked opcode of the command that writing bOut completes and doCmd()
\* executes, or Undefined if this write executes none
FDC_cmdOf(f, bOut) ==
    LET bCmd == IF f.regDataTotal = 0 THEN bOut ELSE f.regDataArray[0]
        c == BitAnd(bCmd, FDC_CMD_MASK)
    IN  IF FDC_fSupported(bCmd) /\ f.regDataTotal + 1 >= FDC_aCmdSeqs[c].cbWrite
        THEN c ELSE Undefined

\* the function the command completed by writing bOut will connect, if any
FDC_fnOf(f, bOut) ==
    LET c == FDC_cmdOf(f, bOut)
    IN  IF c = FDC_CMD_READ_DATA THEN "dmaRead"
        ELSE IF c = FDC_CMD_WRITE_DATA THEN "dmaWrite"
        ELSE IF c = FDC_CMD_FORMAT_TRACK THEN "dmaFormat"
        ELSE "none"

\* the C/H/R/N/EOT bytes of the READ_DATA for unit 0, head 0 that writing
\* bOut completes, else the empty tuple
FDC_reqOf(f, bOut) ==
    IF FDC_cmdOf(f, bOut) = FDC_CMD_READ_DATA /\ BitAnd(f.regDataArray[1], 7) = 0
    THEN <<f.regDataArray[2], f.regDataArray[3], f.regDataArray[4],
           f.regDataArray[5], f.regDataArray[6]>>
    ELSE <<>>

(***************************************************************************)
(* FDC: initial state, the controller after construction with diskettes    *)
(* mounted, and the actions: the host's port accesses and the DMA peer's   *)
(* service.                                                                *)
(***************************************************************************)
FDC_Init ==
    /\ ctl = "FDC"
    /\ fdc = FDC_NewController
    /\ fdrives = [i \in 0..(FDC_DRIVES - 1) |->
                    FDC_NewDrive(IF i = 0 THEN "A" ELSE IF i = 2 THEN "B" ELSE NoDisk)]
    /\ hdc = NoController
    /\ hdrives = <<>>
    /\ images = [n \in {"A", "B"} |-> NewDiskette(n = "B")]
    /\ dma = DMAIdle
    /\ irr = {}
    /\ last = NoHistory

\* the host reads the Main Status register
PortInFDCStatus ==
    /\ ctl = "FDC"
    /\ LET r == FDC_inFDCStatus(Machine)
       IN  /\ Commit(r.m)
           /\ last' = [last EXCEPT !.fPolled = TRUE, !.cmd = Undefined]
    /\ UNCHANGED ctl

\* whether the host is in the middle of writing a supported command
FDC_fCommandPhase ==
    /\ fdc.regDataTotal > 0
    /\ BitAnd(fdc.regStatus, FDC_REG_STATUS_READ_DATA) = 0
    /\ FDC_fSupported(fdc.regDataArray[0])

\* the host reads the Data register (not while it is writing a command)
PortInFDCData ==
    /\ ctl = "FDC"
    /\ ~FDC_fCommandPhase
    /\ LET r == FDC_inFDCData(Machine)
       IN  /\ Commit(r.m)
           /\ last' = [last EXCEPT !.fPolled = FALSE, !.cmd = Undefined, !.req = <<>>]
    /\ UNCHANGED ctl

\* the host writes the Output register (not while it is writing a command)
PortOutFDCOutput ==
    /\ ctl = "FDC"
    /\ ~FDC_fCommandPhase
    /\ \E bOut \in HostOutputs :
        /\ Commit(FDC_outFDCOutput(Machine, bOut))
        /\ last' = [last EXCEPT
                      !.fPolled = FALSE, !.cmd = Undefined, !.req = <<>>,
                      !.idReset = IF BitAnd(bOut, FDC_REG_OUTPUT_ENABLE) = 0
                                     /\ dma.open
                                  THEN dma.id ELSE @]
    /\ UNCHANGED ctl

\* the host writes a command byte to the Data register (never during a
\* Result Phase: a new command must not begin until the results are drained)
PortOutFDCData ==
    /\ ctl = "FDC"
    /\ BitAnd(fdc.regStatus, FDC_REG_STATUS_READ_DATA) = 0
    /\ fdc.regDataTotal = 0 => last.cCmds < MaxCmds
    /\ \E bOut \in HostBytes(fdc.regDataArray[0], fdc.regDataTotal) :
       \E p \in PeerChoices("FDC", FDC_fnOf(fdc, bOut)) :
        /\ Commit(FDC_outFDCData(Machine, bOut, p))
        /\ last' = [last EXCEPT
                      !.fPolled = FALSE, !.cmd = FDC_cmdOf(fdc, bOut),
                      !.cCmds = @ + (IF fdc.regDataTotal = 0 THEN 1 ELSE 0),
                      !.req = FDC_reqOf(fdc, bOut)]
    /\ UNCHANGED ctl

\* the DMA peer services a session it had deferred
FDC_DMAService ==
    /\ ctl = "FDC"
    /\ dma.open
    /\ \E p \in PeerChoices("FDC", dma.fn) :
        /\ p.fNow
        /\ Commit(DMAService(Machine, p))
    /\ last' = [last EXCEPT !.fPolled = FALSE, !.cmd = Undefined]
    /\ UNCHANGED ctl

FDC_Next ==
    \/ PortInFDCStatus
    \/ PortInFDCData
    \/ PortOutFDCOutput
    \/ PortOutFDCData
    \/ FDC_DMAService

SpecFDC == FDC_Init /\ [][FDC_Next]_vars

(***************************************************************************)
(* The host of the fixed disk controller: the inputs of the handlers.      *)
(***************************************************************************)
\* first bytes a host writes to the XT controller: TEST_READY,
\* REQUEST_SENSE, READ_DATA, WRITE_DATA, INIT_DRIVE, WRITE_BUFFER, and
\* READ_BUFFER, which doXTC does not implement
XTC_HostOpcodes == {0, 3, 8, 10, 12, 14, 15}

\* the drive parameters a host programs with INIT_DRIVE: 306 cylinders, 4 heads
XTC_HostParms == <<1, 50, 4, 0, 0, 0, 0, 0>>

\* the bytes a host may write at position i of the command block whose
\* first byte is bCmd: drive 0 or the absent drive 1, for a transfer the
\* first sector of a track or one past the last, one block
XTC_HostBytes(bCmd, i) ==
    IF i = 0 THEN XTC_HostOpcodes
    ELSE IF i = 1 THEN {0, 32}
    ELSE IF i = 2 /\ bCmd \in {XTC_CMD_READ_DATA, XTC_CMD_WRITE_DATA}
    THEN {0, HDC_SECTORS}
    ELSE IF i = 4 THEN {1}
    ELSE IF i >= XTC_CMD_LENGTH THEN {XTC_HostParms[i - XTC_CMD_LENGTH + 1]}
    ELSE {0}

\* the opcode of the command that writing bOut completes and doXTC()
\* executes, or Undefined if this write executes none
XTC_cmdOf(h, bOut) ==
    LET bCmd == IF h.regDataTotal = 0 THEN bOut ELSE h.regDataArray[0]
        cbCmd == IF bCmd # XTC_CMD_INIT_DRIVE THEN XTC_CMD_LENGTH ELSE XTC_FIFO
    IN  IF h.regDataTotal + 1 >= cbCmd THEN bCmd ELSE Undefined

\* the function the command completed by writing bOut will connect, if any
XTC_fnOf(h, bOut) ==
    LET c == XTC_cmdOf(h, bOut)
    IN  IF c = XTC_CMD_READ_DATA THEN "dmaRead"
        ELSE IF c = XTC_CMD_WRITE_DATA THEN "dmaWrite"
        ELSE IF c = XTC_CMD_WRITE_BUFFER THEN "dmaWriteBuffer"
        ELSE "none"

\* values a host writes to the task-file registers of the AT controller:
\* drive 0 or the absent drive 1, the first sector of a track or one past the
\* last, one sector
ATC_HostDrvHd == {160, 176}

ATC_HostSecNum == {1, HDC_SECTORS + 1}

ATC_HostSecCnt == {1}

\* commands a host writes to the AT controller: RESTORE, READ_DATA,
\* WRITE_DATA, READ_VERF, DIAGNOSE, SETPARMS
ATC_HostCommands == {16, 32, 48, 64, 144, 145}

\* the byte a host writes to the Data register
ATC_HostData == 229

\* values a host writes to the Fixed Disk Register: interrupts enabled,
\* interrupts disabled, reset
ATC_HostFDR == {0, 2, 4}

(***************************************************************************)
(* HDC: initial state, the controller after construction with one fixed    *)
(* disk configured, and the actions.                                       *)
(***************************************************************************)
\* the machine after new HDC(parmsHDC) and initController()
HDC_NewMachine(fATC) ==
    HDC_initController(
        [fdc |-> NoController, drv |-> <<>>, hdc |-> HDC_NewController(fATC),
         hdrv |-> [i \in {0} |-> HDC_NewDrive], img |-> <<>>,
         dma |-> DMAIdle, irr |-> {}])

HDC_Init(fATC) ==
    /\ ctl = IF fATC THEN "ATC" ELSE "XTC"
    /\ fdc = NoController
    /\ fdrives = <<>>
    /\ hdc = HDC_NewMachine(fATC).hdc
    /\ hdrives = HDC_NewMachine(fATC).hdrv
    /\ images = HDC_NewMachine(fATC).img
    /\ dma = DMAIdle
    /\ irr = {}
    /\ last = NoHistory

XTC_Init == HDC_Init(FALSE)

ATC_Init == HDC_Init(TRUE)

\* whether the host is in the middle of writing a command block
XTC_fCommandPhase ==
    /\ hdc.regDataTotal > 0
    /\ BitAnd(hdc.regStatus, XTC_STATUS_IOMODE) = 0

\* the host reads the Data register (not while it is writing a command)
PortInXTCData ==
    /\ ctl = "XTC"
    /\ ~XTC_fCommandPhase
    /\ LET r == HDC_inXTCData(Machine)
       IN  /\ Commit(r.m)
           /\ last' = [last EXCEPT !.fPolled = FALSE, !.cmd = Undefined]
    /\ UNCHANGED ctl

\* the host writes a byte of a command block to the Data register (never
\* while the controller is in its Result Phase)
PortOutXTCData ==
    /\ ctl = "XTC"
    /\ BitAnd(hdc.regStatus, XTC_STATUS_IOMODE) = 0
    /\ hdc.regDataTotal = 0 => last.cCmds < MaxCmds
    /\ \E bOut \in XTC_HostBytes(hdc.regDataArray[0], hdc.regDataTotal) :
       \E p \in PeerChoices("HDC", XTC_fnOf(hdc, bOut)) :
        /\ Commit(HDC_outXTCData(Machine, bOut, p))
        /\ last' = [last EXCEPT
                      !.fPolled = FALSE, !.cmd = XTC_cmdOf(hdc, bOut),
                      !.cCmds = @ + (IF hdc.regDataTotal = 0 THEN 1 ELSE 0)]
    /\ UNCHANGED ctl

\* the host reads the Status register
PortInXTCStatus ==
    /\ ctl = "XTC"
    /\ LET r == HDC_inXTCStatus(Machine)
       IN  /\ Commit(r.m)
           /\ last' = [last EXCEPT !.fPolled = FALSE, !.cmd = Undefined]
    /\ UNCHANGED ctl

\* the host writes the Reset port
PortOutXTCReset ==
    /\ ctl = "XTC"
    /\ Commit(HDC_outXTCReset(Machine, 0))
    /\ last' = [last EXCEPT !.fPolled = FALSE, !.cmd = Undefined,
                            !.idReset = IF dma.open THEN dma.id ELSE @]
    /\ UNCHANGED ctl

\* the host writes the Pulse port to select the controller (before a command)
PortOutXTCPulse ==
    /\ ctl = "XTC"
    /\ hdc.regDataTotal = 0
    /\ Commit(HDC_outXTCPulse(Machine, 0))
    /\ last' = [last EXCEPT !.fPolled = FALSE, !.cmd = Undefined]
    /\ UNCHANGED ctl

\* the DMA peer services a session it had deferred
XTC_DMAService ==
    /\ ctl = "XTC"
    /\ dma.open
    /\ \E p \in PeerChoices("HDC", dma.fn) :
        /\ p.fNow
        /\ Commit(DMAService(Machine, p))
    /\ last' = [last EXCEPT !.fPolled = FALSE, !.cmd = Undefined]
    /\ UNCHANGED ctl

XTC_Next ==
    \/ PortInXTCData
    \/ PortOutXTCData
    \/ PortInXTCStatus
    \/ PortOutXTCReset
    \/ PortOutXTCPulse
    \/ XTC_DMAService

SpecXTC == XTC_Init /\ [][XTC_Next]_vars

\* the host writes the Drive/Head register
PortOutATCDrvHd ==
    /\ ctl = "ATC"
    /\ \E bOut \in ATC_HostDrvHd : Commit(HDC_outATCDrvHd(Machine, bOut))
    /\ last' = [last EXCEPT !.fPolled = FALSE, !.cmd = Undefined]
    /\ UNCHANGED ctl

\* the host writes the Sector Number register
PortOutATCSecNum ==
    /\ ctl = "ATC"
    /\ \E bOut \in ATC_HostSecNum : Commit(HDC_outATCSecNum(Machine, bOut))
    /\ last' = [last EXCEPT !.fPolled = FALSE, !.cmd = Undefined]
    /\ UNCHANGED ctl

\* the host writes the Sector Count register
PortOutATCSecCnt ==
    /\ ctl = "ATC"
    /\ \E bOut \in ATC_HostSecCnt : Commit(HDC_outATCSecCnt(Machine, bOut))
    /\ last' = [last EXCEPT !.fPolled = FALSE, !.cmd = Undefined]
    /\ UNCHANGED ctl

\* the host writes the Command register
PortOutATCCommand ==
    /\ ctl = "ATC"
    /\ last.cCmds < MaxCmds
    /\ \E bOut \in ATC_HostCommands :
        /\ Commit(HDC_outATCCommand(Machine, bOut))
        /\ last' = [last EXCEPT !.fPolled = FALSE, !.cmd = bOut, !.cCmds = @ + 1]
    /\ UNCHANGED ctl

\* the host writes the Fixed Disk Register
PortOutATCFDR ==
    /\ ctl = "ATC"
    /\ \E bOut \in ATC_HostFDR : Commit(HDC_outATCFDR(Machine, bOut))
    /\ last' = [last EXCEPT !.fPolled = FALSE, !.cmd = Undefined]
    /\ UNCHANGED ctl

\* the host reads the Status register
PortInATCStatus ==
    /\ ctl = "ATC"
    /\ LET r == HDC_inATCStatus(Machine)
       IN  /\ Commit(r.m)
           /\ last' = [last EXCEPT !.fPolled = TRUE, !.cmd = Undefined]
    /\ UNCHANGED ctl

\* the controller has read a sector ahead for the host: the READ_DATA
\* command in progress has sought it and none of its bytes has been read
ATC_fSectorReady ==
    /\ hdc.drive # Undefined
    /\ BitAnd(hdc.regCommand, ATC_COMMAND_MASK) = ATC_COMMAND_READ_DATA
    /\ hdrives[hdc.drive].errorCode = XTC_ERR_NONE
    /\ hdrives[hdc.drive].sector # Null
    /\ hdrives[hdc.drive].ibSector = 0

\* the controller requests a sector from the host for the WRITE_DATA command
\* in progress
ATC_fSectorWanted ==
    /\ hdc.drive # Undefined
    /\ BitAnd(hdc.regCommand, ATC_COMMAND_MASK) = ATC_COMMAND_WRITE_DATA
    /\ BitAnd(hdc.regStatus, ATC_STATUS_DATA_REQ) # 0

\* the host, interrupted, reads the sector from the Data register (REP INSW)
PortInATCData ==
    /\ ctl = "ATC"
    /\ ATC_fSectorReady
    /\ last.cCmds < MaxCmds
    /\ Commit(ATC_RepIn(Machine, HDC_CBSECTOR))
    /\ last' = [last EXCEPT !.fPolled = FALSE, !.cmd = Undefined,
                            !.cCmds = @ + 1]
    /\ UNCHANGED ctl

\* the host writes the sector requested to the Data register (REP OUTSW)
PortOutATCData ==
    /\ ctl = "ATC"
    /\ ATC_fSectorWanted
    /\ last.cCmds < MaxCmds
    /\ Commit(ATC_RepOut(Machine, ATC_HostData, HDC_CBSECTOR))
    /\ last' = [last EXCEPT !.fPolled = FALSE, !.cmd = Undefined,
                            !.cCmds = @ + 1]
    /\ UNCHANGED ctl

ATC_Next ==
    \/ PortOutATCDrvHd
    \/ PortOutATCSecNum
    \/ PortOutATCSecCnt
    \/ PortOutATCCommand
    \/ PortOutATCFDR
    \/ PortInATCStatus
    \/ PortInATCData
    \/ PortOutATCData

SpecATC == ATC_Init /\ [][ATC_Next]_vars

(***************************************************************************)
(* A machine with any one of the three controllers.                        *)
(***************************************************************************)
Init == FDC_Init \/ XTC_Init \/ ATC_Init

Next == FDC_Next \/ XTC_Next \/ ATC_Next

Spec == Init /\ [][Next]_vars

(***************************************************************************)
(* Properties.                                                             *)
(***************************************************************************)
\* the FDC signals a Result Phase in the Main Status register
FDC_fResultPhase == BitAnd(fdc.regStatus, FDC_REG_STATUS_READ_DATA) # 0

\* the step opens a DMA session and leaves it open (the peer deferred it)
StepLeavesSessionOpen == dma'.id # dma.id /\ dma'.open

\* the step closes a DMA session, opened by an earlier step or by itself
StepClosesSession == ~dma'.open /\ (dma.open \/ dma'.id # dma.id)

\* C1: a step that executes READ_DATA, WRITE_DATA or FORMAT_TRACK and leaves
\* the DMA session it opened unfinished makes no result byte readable (the
\* FIFO holds none, no Result Phase is signalled) and raises no interrupt:
\* results and interrupt come only after the session has finished.
C1_ResultsAfterSession ==
    [][(/\ ctl = "FDC"
        /\ last'.cmd \in {FDC_CMD_READ_DATA, FDC_CMD_WRITE_DATA,
                          FDC_CMD_FORMAT_TRACK}
        /\ StepLeavesSessionOpen)
       => /\ fdc'.regDataTotal = 0
          /\ ~FDC_fResultPhase'
          /\ (IRQ_FDC \in irr' => IRQ_FDC \in irr)]_vars

\* C2: when the session that was open at the last reset of its controller is
\* closed by the DMA peer afterwards, the controller's registers and the
\* interrupt requests stay as they are: no result byte is pushed and no
\* interrupt is raised on behalf of the aborted command.
C2_NoCompletionAfterReset ==
    [][(/\ dma.open
        /\ last.idReset = dma.id
        /\ ~dma'.open
        /\ dma'.id = dma.id)
       => /\ fdc' = fdc
          /\ hdc' = hdc
          /\ irr' = irr]_vars

\* the status byte an XTC session's continuation handed to done() reports an
\* error
XTC_fStatusError ==
    BitAnd(hdc.regDataArray[0], XTC_DATA_STATUS_ERROR) # 0

\* the step closes an XTC session with completed = false
XTC_StepClosesIncomplete ==
    ctl = "XTC" /\ StepClosesSession /\ ~dma'.fComplete

\* an XTC session that a step leaves open has a drive whose error code is
\* none
XTC_OpensWithoutError ==
    (ctl = "XTC" /\ StepLeavesSessionOpen)
        => hdrives'[dma'.iDrive].errorCode = XTC_ERR_NONE

\* C3 as stated: every HDC session opens with error code none, and every
\* session closed incomplete records an error and hands STATUS_ERROR to the
\* controller.
C3_IncompleteIsError ==
    [][/\ XTC_OpensWithoutError
       /\ XTC_StepClosesIncomplete
            => /\ hdrives'[dma'.iDrive].errorCode # XTC_ERR_NONE
               /\ XTC_fStatusError']_vars

\* C3: every HDC session opens with error code none; a session closed
\* incomplete hands STATUS_ERROR to the controller, with NOT_READY or
\* NO_SECTOR recorded, except that a write session may hand STATUS_OK, with
\* no error recorded (doDMAWrite clears NO_SECTOR); the status is
\* STATUS_ERROR exactly when an error stays recorded.
C3_IncompleteIsErrorUnlessWrite ==
    [][/\ XTC_OpensWithoutError
       /\ XTC_StepClosesIncomplete
            => /\ XTC_fStatusError'
                    <=> hdrives'[dma'.iDrive].errorCode # XTC_ERR_NONE
               /\ hdrives'[dma'.iDrive].errorCode
                    \in {XTC_ERR_NONE, XTC_ERR_NOT_READY, XTC_ERR_NO_SECTOR}
               /\ ~XTC_fStatusError' => dma'.done.kind = "doDMAWrite"
               /\ dma'.done.kind = "doDMAWrite"
                    => hdrives'[dma'.iDrive].errorCode # XTC_ERR_NO_SECTOR]_vars

\* a write session that the peer never engaged has just been closed
\* incomplete: the fallback recorded NOT_READY and done() got STATUS_ERROR
C3_Witness ==
    /\ ctl = "XTC"
    /\ last.cmd = XTC_CMD_WRITE_DATA
    /\ ~dma.open /\ dma.id > 0 /\ ~dma.fComplete /\ dma.cbXfer = 0
    /\ hdrives[dma.iDrive].errorCode = XTC_ERR_NOT_READY
    /\ XTC_fStatusError

\* C4: a step that executes an FDC command raises the interrupt only if
\* INT_ENABLE is set in the Output register and the addressed drive's error
\* code has no NOT_READY bit.
C4_InterruptPolicy ==
    [][(/\ ctl = "FDC"
        /\ last'.cmd # Undefined
        /\ IRQ_FDC \notin irr
        /\ IRQ_FDC \in irr')
       => /\ BitAnd(fdc.regOutput, FDC_REG_OUTPUT_INT_ENABLE) # 0
          /\ BitAnd(fdrives'[fdc'.iUnit].errorCode, FDC_ERR_NOT_READY) = 0]_vars

\* a READ_DATA has just raised the interrupt, with INT_ENABLE set and no
\* NOT_READY error on the addressed drive
C4_Witness ==
    /\ ctl = "FDC"
    /\ last.cmd = FDC_CMD_READ_DATA
    /\ IRQ_FDC \in irr
    /\ BitAnd(fdc.regOutput, FDC_REG_OUTPUT_INT_ENABLE) # 0
    /\ BitAnd(fdrives[fdc.iUnit].errorCode, FDC_ERR_NOT_READY) = 0

\* C5: a pending FDC interrupt is cleared by no step but a read of the Data
\* register, and the first Data-register read of a Result Phase clears it.
C5_ClearedByFirstDataRead ==
    [][(ctl = "FDC" /\ IRQ_FDC \in irr)
       => /\ IRQ_FDC \notin irr' => PortInFDCData
          /\ (PortInFDCData /\ FDC_fResultPhase /\ fdc.regDataIndex = 0)
                => IRQ_FDC \notin irr']_vars


C7_Witness ==
    /\ ctl = "FDC"
    /\ last.cmd = FDC_CMD_READ_DATA
    /\ fdrives[fdc.iUnit].disk = NoDisk
    /\ fdc.regDataTotal = 7
    /\ BitAnd(fdc.regDataArray[0], FDC_ERR_NOT_READY) # 0

\* C7: after the step that executes a supported FDC command the FIFO holds
\* as many unread result bytes as FDC.aCmdSeqs gives the command (cbRead: 7
\* for READ_DATA, WRITE_DATA and FORMAT_TRACK, 2 for
\* SENSE_INTERRUPT_STATUS, 1 for DRIVE_STATUS, 0 for SPECIFY, RECALIBRATE
\* and SEEK), whatever the outcome; after a READ_DATA for a unit with no
\* image they are 7, with the NotReady bit set in ST0.
C7_ResultCounts ==
    (ctl = "FDC" /\ last.cmd # Undefined)
    => /\ fdc.regDataIndex = 0
       /\ fdc.regDataTotal = FDC_aCmdSeqs[last.cmd].cbRead
       /\ fdc.regDataTotal =
            (CASE last.cmd \in {FDC_CMD_READ_DATA, FDC_CMD_WRITE_DATA,
                                FDC_CMD_FORMAT_TRACK} -> 7
               [] last.cmd = FDC_CMD_INT_STATUS -> 2
               [] last.cmd = FDC_CMD_DRIVE_STATUS -> 1
               [] OTHER -> 0)
       /\ (last.cmd = FDC_CMD_READ_DATA /\ fdrives[fdc.iUnit].disk = NoDisk)
            => /\ fdc.regDataTotal = 7
               /\ BitAnd(fdc.regDataArray[0], FDC_ERR_NOT_READY) # 0

\* C8: when the session of a READ_DATA for unit 0, head 0 with C, H, R, N,
\* EOT = last.req has transferred k whole sectors and finished complete
\* (R + k - 1 <= EOT) and the host has not touched the results, the seven
\* result bytes are 0, 0, 0, C, H, R + k, N.
C8_ReadResults ==
    (/\ ctl = "FDC"
     /\ last.req # <<>>
     /\ ~dma.open /\ dma.fComplete /\ dma.fn = "dmaRead"
     /\ dma.cbXfer > 0
     /\ dma.cbXfer % cbDiskSector = 0
     /\ last.req[3] + (dma.cbXfer \div cbDiskSector) - 1 <= last.req[5])
    => /\ fdc.regDataTotal = 7
       /\ fdc.regDataIndex = 0
       /\ <<fdc.regDataArray[0], fdc.regDataArray[1], fdc.regDataArray[2],
            fdc.regDataArray[3], fdc.regDataArray[4], fdc.regDataArray[5],
            fdc.regDataArray[6]>>
          = <<0, 0, 0, last.req[1], last.req[2],
              last.req[3] + (dma.cbXfer \div cbDiskSector), last.req[4]>>

FDC_fFilled(img, id, b) ==
    /\ DiskSeek(img, id[1], id[2], id[3]) # Null
    /\ \A i \in 0..(img.cbSector - 1) :
          DiskSector(img, DiskSeek(img, id[1], id[2], id[3]))[i] = b

\* the drive of the format session counts as many sectors formatted as its
\* command asked for, every sector the peer identified is filled with the
\* filler byte, and one more DMA byte is refused
C10_Formatted ==
    /\ fdrives[dma.iDrive].cSectorsFormatted = fdrives[dma.iDrive].bSectorEnd
    /\ \A i \in 1..Len(dma.ids) :
          FDC_fFilled(images[fdrives[dma.iDrive].disk], dma.ids[i],
                      fdrives[dma.iDrive].bFiller)
    /\ FDC_writeFormat(Machine, dma.iDrive, 0).b < 0

\* a FORMAT_TRACK of the whole track has just been executed, the peer having
\* identified every sector of the track
C10_Witness ==
    /\ ctl = "FDC"
    /\ last.cmd = FDC_CMD_FORMAT_TRACK
    /\ ~dma.open /\ dma.fn = "dmaFormat"
    /\ {dma.ids[i][3] : i \in 1..Len(dma.ids)} = 1..DiskSectors
    /\ fdrives[dma.iDrive].bSectorEnd = DiskSectors
    /\ fdrives[dma.iDrive].bFiller = 246
    /\ C10_Formatted

\* C10: when a format session closes after the peer has offered as many
\* identifiers (of sectors on the image) as the command's sectors per track
\* SC, every identified sector is filled with the filler byte D,
\* cSectorsFormatted equals bSectorEnd, and a further DMA byte is refused.
C10_FormatTrack ==
    [][(/\ ctl = "FDC"
        /\ StepClosesSession
        /\ dma'.fn = "dmaFormat"
        /\ Len(dma'.ids) >= 1
        /\ Len(dma'.ids) = fdrives'[dma'.iDrive].bSectorEnd)
       => C10_Formatted']_vars

\* C11: a step that executes RECALIBRATE sets the addressed drive's cylinder
\* to 0 and one that executes SEEK sets it to the requested value, each
\* raising the interrupt (when INT_ENABLE is set); a SENSE_INTERRUPT_STATUS
\* executed right after raises no interrupt and returns two bytes, ST0 with
\* the seek-complete bit and the current cylinder of the drive that the
\* SEEK/RECALIBRATE addressed.
C11_SeekThenSense ==
    [][/\ (ctl = "FDC" /\ last'.cmd \in {FDC_CMD_RECALIBRATE, FDC_CMD_SEEK})
          => /\ fdrives'[BitAnd(fdc'.regDataArray[1], 3)].bCylinder
                  = IF last'.cmd = FDC_CMD_SEEK THEN fdc'.regDataArray[2] ELSE 0
             /\ BitAnd(fdc.regOutput, FDC_REG_OUTPUT_INT_ENABLE) # 0
                  => IRQ_FDC \in irr'
       /\ (/\ ctl = "FDC"
           /\ last.cmd \in {FDC_CMD_RECALIBRATE, FDC_CMD_SEEK}
           /\ last'.cmd = FDC_CMD_INT_STATUS)
          => /\ irr' = irr
             /\ fdc'.regDataTotal = 2
             /\ BitAnd(fdc'.regDataArray[0], FDC_ERR_SEEK_END) # 0
             /\ fdc'.regDataArray[1] = fdrives[fdc.iUnit].bCylinder]_vars

(***************************************************************************)
(* HDC.prototype.advanceSector on its own: a drive of any small geometry,  *)
(* with either sector numbering, is advanced sector after sector from any  *)
(* position within its bounds.  last.req holds the cylinder, head and      *)
(* sector the walk started at and last.cCmds the sectors advanced so far.  *)
(***************************************************************************)
\* heads of the drives walked
AdvHeads == 3

\* sectors per track of the drives walked
AdvSectors == 3

\* cylinders of the drives walked
AdvCylinders == 2

\* a drive as initDrive() leaves it for the controller variant, with the
\* geometry nHeads x nSectors and positioned at c/h/s
ADV_Drive(fATC, nHeads, nSectors, c, h, s) ==
    [HDC_NewDrive EXCEPT !.errorCode = XTC_ERR_NONE,
                         !.bSectorBias = IF fATC THEN 0 ELSE 1,
                         !.nCylinders = AdvCylinders,
                         !.nHeads = nHeads,
                         !.nSectors = nSectors,
                         !.cbSector = HDC_CBSECTOR,
                         !.wCylinder = c,
                         !.bHead = h,
                         !.bSector = s]

ADV_Init ==
    /\ ctl = "ADV"
    /\ fdc = NoController
    /\ fdrives = <<>>
    /\ hdc = NoController
    /\ images = <<>>
    /\ dma = DMAIdle
    /\ irr = {}
    /\ \E fATC \in BOOLEAN, nHeads \in 1..AdvHeads, nSectors \in 1..AdvSectors :
       \E c \in 0..(AdvCylinders - 1), h \in 0..(nHeads - 1),
          s \in (IF fATC THEN 1 ELSE 0)..(nSectors - (IF fATC THEN 0 ELSE 1)) :
        /\ hdrives = [i \in {0} |-> ADV_Drive(fATC, nHeads, nSectors, c, h, s)]
        /\ last = [NoHistory EXCEPT !.req = <<c, h, s>>]

\* one call of advanceSector(drive), until the drive has been advanced once
\* around its cylinder
ADV_Advance ==
    /\ ctl = "ADV"
    /\ hdrives[0].wCylinder < hdrives[0].nCylinders
    /\ last.cCmds < hdrives[0].nSectors * hdrives[0].nHeads
    /\ hdrives' = [hdrives EXCEPT ![0] = HDC_advanceSector(@)]
    /\ last' = [last EXCEPT !.cCmds = @ + 1]
    /\ UNCHANGED <<ctl, fdc, fdrives, hdc, images, dma, irr>>

ADV_Next == ADV_Advance

SpecADV == ADV_Init /\ [][ADV_Next]_vars

ADV_StepRolls(bFirst) ==
    LET d == hdrives[0]
        e == hdrives'[0]
    IN  /\ e.bSector \in bFirst..(bFirst + d.nSectors - 1)
        /\ IF d.bSector + 1 > bFirst + d.nSectors - 1
           THEN /\ e.bSector = bFirst
                /\ IF d.bHead + 1 > d.nHeads - 1
                   THEN e.bHead = 0 /\ e.wCylinder = d.wCylinder + 1
                   ELSE e.bHead = d.bHead + 1 /\ e.wCylinder = d.wCylinder
           ELSE /\ e.bSector = d.bSector + 1
                /\ e.bHead = d.bHead /\ e.wCylinder = d.wCylinder

\* C13 as stated: the sector stays within [bias, sectorsPerTrack + bias - 1]
\* and is reset to bias when it would exceed that range.
C13_SectorWithinBias ==
    [][ADV_Advance => ADV_StepRolls(hdrives[0].bSectorBias)]_vars

\* C13: the sector stays within [1 - bias, sectorsPerTrack - bias] (ATC bias
\* 0: 1..sectorsPerTrack, XTC bias 1: 0..sectorsPerTrack-1): a sector that
\* would exceed the range is reset to 1 - bias and the head incremented, and
\* a head that would exceed heads - 1 is reset to 0 and the cylinder
\* incremented.
C13_SectorWithinTrack ==
    [][ADV_Advance => ADV_StepRolls(1 - hdrives[0].bSectorBias)]_vars

\* the last sector of the last head has rolled into the next cylinder
C13_Witness ==
    /\ ctl = "ADV"
    /\ hdrives[0].nHeads > 1 /\ hdrives[0].nSectors > 1
    /\ last.cCmds > 0
    /\ hdrives[0].bSector = 1 - hdrives[0].bSectorBias
    /\ hdrives[0].bHead = 0
    /\ hdrives[0].wCylinder = last.req[1] + 1

\* a position advanced k sectors by the sector-advance algorithm of
\* HDC.prototype.advanceSector
RECURSIVE SharedAdvance(_, _)
SharedAdvance(d, k) ==
    IF k = 0 THEN d ELSE SharedAdvance(HDC_advanceSector(d), k - 1)

\* the step closes a session of FDC.dmaRead or FDC.dmaWrite
FDC_StepEndsTransfer ==
    /\ ctl = "FDC"
    /\ StepClosesSession
    /\ dma'.fn \in {"dmaRead", "dmaWrite"}

\* the cylinder, head and sector the transfer ended by the step started at:
\* those of the command the step executes, or those in the drive when the
\* step is the peer's service of a session left open
FDC_StartOfTransfer ==
    IF last'.cmd = Undefined
    THEN [wCylinder |-> fdrives[dma.iDrive].bCylinder,
          bHead |-> fdrives[dma.iDrive].bHead,
          bSector |-> fdrives[dma.iDrive].bSector]
    ELSE [wCylinder |-> fdc.regDataArray[2],
          bHead |-> BitAnd(Shr(fdc.regDataArray[1], 2), 1),
          bSector |-> fdc.regDataArray[4]]

\* the sectors the transfer ended by the step has consumed
FDC_SectorsConsumed == (dma'.cbXfer + cbDiskSector - 1) \div cbDiskSector

\* C14 as stated: the position of the drive after an FDC read or write
\* transfer is the one the sector-advance algorithm of the HDC yields (with
\* sectors numbered from 1) for the sectors consumed: past the last sector of
\* the track the sector is reset to the first and the head incremented, then
\* the cylinder.
C14_SharedAdvance ==
    [][FDC_StepEndsTransfer
       => LET e == fdrives'[dma'.iDrive]
              img == images[e.disk]
              d == SharedAdvance(
                     [wCylinder |-> FDC_StartOfTransfer.wCylinder,
                      bHead |-> FDC_StartOfTransfer.bHead,
                      bSector |-> FDC_StartOfTransfer.bSector,
                      nSectors |-> img.nSectors, nHeads |-> img.nHeads,
                      bSectorBias |-> 0],
                     FDC_SectorsConsumed)
          IN  /\ e.bCylinder = d.wCylinder
              /\ e.bHead = d.bHead
              /\ e.bSector = d.bSector]_vars

\* C14: an FDC read or write transfer increments the drive's sector by one
\* for every sector it consumes and changes neither head nor cylinder, also
\* past the last sector of the track (where the next sector is not found and
\* the transfer ends).
C14_SectorOnly ==
    [][FDC_StepEndsTransfer
       => LET e == fdrives'[dma'.iDrive]
          IN  /\ e.bCylinder = FDC_StartOfTransfer.wCylinder
              /\ e.bHead = FDC_StartOfTransfer.bHead
              /\ e.bSector = FDC_StartOfTransfer.bSector + FDC_SectorsConsumed]_vars

\* a read that started at the first sector has consumed every sector of the
\* track: the drive's sector is one past the last, on the same head and
\* cylinder
C14_Witness ==
    /\ ctl = "FDC"
    /\ ~dma.open /\ dma.fn = "dmaRead" /\ dma.fComplete
    /\ dma.cbXfer = DiskSectors * cbDiskSector
    /\ fdrives[dma.iDrive].bSector = DiskSectors + 1
    /\ fdrives[dma.iDrive].bHead = 0
    /\ fdrives[dma.iDrive].bCylinder = 0

\* a byte count that is a non-negative multiple of the sector size cb
WholeSectors(n, cb) == n >= 0 /\ n % cb = 0

DiskSave(disk, img) == [disk |-> disk, data |-> img.data]

\* the deltas saved for a drive without a disk (null): they belong to no image
NoDeltas == [disk |-> NoDisk, data |-> <<>>]

\* disk.restore(deltas): the number of sectors reattached and the image, or
\* -1 and the image untouched when the deltas belong to another image
DiskRestore(disk, img, deltas) ==
    IF deltas.disk = disk
    THEN [n |-> Cardinality(DOMAIN deltas.data),
          img |-> [img EXCEPT !.data = deltas.data]]
    ELSE [n |-> 0 - 1, img |-> img]

\* HDC.prototype.saveDrive(drive); drive.fRemovable is not modelled, its
\* slot holds FALSE
HDC_saveDrive(m, iD) ==
    LET d == m.hdrv[iD]
    IN  <<d.errorCode, d.senseCode, FALSE, d.abDriveParms, d.abSector,
          d.bHead, d.nHeads, d.wCylinder, d.bSector, d.bSectorEnd, d.nBytes,
          d.ibSector,
          IF d.disk # NoDisk THEN DiskSave(d.disk, m.img[d.disk])
          ELSE NoDeltas>>

\* HDC.prototype.saveController(): the registers of the controller variant,
\* then saveDrives()
HDC_saveController(m) ==
    LET h == m.hdc
    IN  (IF h.fATC
         THEN <<h.regError, h.regWPreC, h.regSecCnt, h.regSecNum, h.regCylLo,
                h.regCylHi, h.regDrvHd, h.regStatus, h.regCommand, h.regFDR>>
         ELSE <<h.regConfig, h.regStatus, h.regDataArray, h.regDataIndex,
                h.regDataTotal, h.regReset, h.regPulse, h.regPattern,
                h.iDriveAllowFail>>)
        \o <<[iD \in DOMAIN m.hdrv |-> HDC_saveDrive(m, iD)]>>

\* HDC_restoreDrive that reads the cylinder and the sector from each
\* other's slot
HDC_restoreDrive_Swapped(r, iD, data) ==
    LET m == r.m
        m1 == HDC_verifyDrive(
                [m EXCEPT !.hdrv[iD] =
                    [@ EXCEPT !.errorCode = data[1],
                              !.senseCode = data[2],
                              !.abDriveParms = data[4],
                              !.abSector = data[5],
                              !.bHead = data[6],
                              !.nHeads = data[7],
                              !.wCylinder = data[9],
                              !.bSector = data[8],
                              !.bSectorEnd = data[10],
                              !.nBytes = data[11],
                              !.bSectorBias = IF m.hdc.fATC THEN 0 ELSE 1,
                              !.type = HDC_iDriveTypeDefault(m.hdc.fATC),
                              !.nSectors = HDC_SECTORS,
                              !.cbSector = HDC_CBSECTOR]], iD)
        d == m1.hdrv[iD]
        res == DiskRestore(d.disk, m1.img[d.disk], data[13])
        fSuccess == d.disk = NoDisk \/ res.n >= 0
        m2 == IF d.disk # NoDisk
              THEN [m1 EXCEPT !.img[d.disk] = res.img] ELSE m1
    IN  [m |-> [m2 EXCEPT
                  !.hdrv[iD].ibSector = data[12],
                  !.hdrv[iD].sector =
                      IF d.disk # NoDisk /\ fSuccess /\ data[12] # Undefined
                      THEN DiskSeek(m2.img[d.disk], d.wCylinder, d.bHead,
                                    d.bSector + d.bSectorBias)
                      ELSE Null],
         fSuccess |-> r.fSuccess /\ fSuccess]

\* HDC_restoreDrive that finds the sector under the position again whether
\* or not the deltas were restored
HDC_restoreDrive_Seeking(r, iD, data) ==
    LET m == r.m
        m1 == HDC_verifyDrive(
                [m EXCEPT !.hdrv[iD] =
                    [@ EXCEPT !.errorCode = data[1],
                              !.senseCode = data[2],
                              !.abDriveParms = data[4],
                              !.abSector = data[5],
                              !.bHead = data[6],
                              !.nHeads = data[7],
                              !.wCylinder = data[8],
                              !.bSector = data[9],
                              !.bSectorEnd = data[10],
                              !.nBytes = data[11],
                              !.bSectorBias = IF m.hdc.fATC THEN 0 ELSE 1,
                              !.type = HDC_iDriveTypeDefault(m.hdc.fATC),
                              !.nSectors = HDC_SECTORS,
                              !.cbSector = HDC_CBSECTOR]], iD)
        d == m1.hdrv[iD]
        res == DiskRestore(d.disk, m1.img[d.disk], data[13])
        fSuccess == d.disk = NoDisk \/ res.n >= 0
        m2 == IF d.disk # NoDisk
              THEN [m1 EXCEPT !.img[d.disk] = res.img] ELSE m1
    IN  [m |-> [m2 EXCEPT
                  !.hdrv[iD].ibSector = data[12],
                  !.hdrv[iD].sector =
                      IF d.disk # NoDisk /\ data[12] # Undefined
                      THEN DiskSeek(m2.img[d.disk], d.wCylinder, d.bHead,
                                    d.bSector + d.bSectorBias)
                      ELSE Null],
         fSuccess |-> r.fSuccess /\ fSuccess]

\* HDC.prototype.initDrive(iDrive, drive, driveConfig, data, fHard) with the
\* data of a saved drive, and the fSuccess of initController so far: the
\* fields by position, the geometry of the configured drive type, the Disk
\* from verifyDrive, then the deltas and the sector under the position
HDC_restoreDrive(r, iD, data) ==
    LET m == r.m
        m1 == HDC_verifyDrive(
                [m EXCEPT !.hdrv[iD] =
                    [@ EXCEPT !.errorCode = data[1],
                              !.senseCode = data[2],
                              !.abDriveParms = data[4],
                              !.abSector = data[5],
                              !.bHead = data[6],
                              !.nHeads = data[7],
                              !.wCylinder = data[8],
                              !.bSector = data[9],
                              !.bSectorEnd = data[10],
                              !.nBytes = data[11],
                              !.bSectorBias = IF m.hdc.fATC THEN 0 ELSE 1,
                              !.type = HDC_iDriveTypeDefault(m.hdc.fATC),
                              !.nSectors = HDC_SECTORS,
                              !.cbSector = HDC_CBSECTOR]], iD)
        d == m1.hdrv[iD]
        res == DiskRestore(d.disk, m1.img[d.disk], data[13])
        fSuccess == d.disk = NoDisk \/ res.n >= 0
        m2 == IF d.disk # NoDisk
              THEN [m1 EXCEPT !.img[d.disk] = res.img] ELSE m1
    IN  [m |-> [m2 EXCEPT
                  !.hdrv[iD].ibSector = data[12],
                  !.hdrv[iD].sector =
                      IF d.disk # NoDisk /\ fSuccess /\ data[12] # Undefined
                      THEN DiskSeek(m2.img[d.disk], d.wCylinder, d.bHead,
                                    d.bSector + d.bSectorBias)
                      ELSE Null],
         fSuccess |-> r.fSuccess /\ fSuccess]

\* the drives of initController(data): every drive restored in turn, a
\* failure remembered and the loop continued, and the drive types in regConfig
RECURSIVE HDC_restoreDrives(_, _, _)
HDC_restoreDrives(r, iD, dataDrives) ==
    IF iD \notin DOMAIN r.m.hdrv THEN r
    ELSE LET r1 == HDC_restoreDrive(r, iD, dataDrives[iD])
             r2 == IF ~r.m.hdc.fATC /\ iD <= 1
                   THEN [r1 EXCEPT !.m.hdc.regConfig =
                            BitOr(@, Shl(BitAnd(r1.m.hdrv[iD].type, 3),
                                         Shl(1 - iD, 1)))]
                   ELSE r1
         IN  HDC_restoreDrives(r2, iD + 1, dataDrives)

\* HDC.prototype.restore(data) = initController(data[0]) on a controller
\* just constructed for the same drives (m.hdc.fATC and DOMAIN m.hdrv): the
\* registers by position, then the drives; the machine and what it returns
HDC_restore(m, data) ==
    LET h0 == HDC_NewController(m.hdc.fATC)
        h == IF m.hdc.fATC
             THEN [h0 EXCEPT !.regError = data[1], !.regWPreC = data[2],
                             !.regSecCnt = data[3], !.regSecNum = data[4],
                             !.regCylLo = data[5], !.regCylHi = data[6],
                             !.regDrvHd = data[7], !.regStatus = data[8],
                             !.regCommand = data[9], !.regFDR = data[10]]
             ELSE [h0 EXCEPT !.regConfig = data[1], !.regStatus = data[2],
                             !.regDataArray = data[3],
                             !.regDataIndex = data[4],
                             !.regDataTotal = data[5], !.regReset = data[6],
                             !.regPulse = data[7], !.regPattern = data[8],
                             !.iDriveAllowFail =
                                 IF data[9] # Undefined THEN data[9]
                                 ELSE 0 - 1]
    IN  HDC_restoreDrives(
            [m |-> [m EXCEPT !.hdc = h,
                             !.hdrv = [iD \in DOMAIN m.hdrv |-> HDC_NewDrive],
                             !.img = <<>>],
             fSuccess |-> TRUE], 0, data[Len(data)])

\* Computer.VERSION_102, the tag a drive is saved with where its deltas
\* used to be (the deltas are saved with the disk history since)
FDC_VERSION_102 == [disk |-> "1.02", data |-> <<>>]

\* FDC.prototype.saveDrive(drive): the geometry as one array, -1 in the slot
\* that used to hold nHeads, and the name and path of the diskette (the
\* model's disk stands for both) after the version tag; drive.name and
\* drive.fRemovable are not modelled
FDC_saveDrive(d) ==
    <<d.errorCode,
      <<"", d.nCylinders, d.nHeads, d.nSectors, d.cbSector, TRUE>>,
      d.bHead, 0 - 1, d.bCylinder, d.bSector, d.bSectorEnd, d.nBytes,
      d.ibSector, FDC_VERSION_102, d.disk, d.disk>>

\* FDC.prototype.saveController(): the registers, saveDrives(), saveDeltas()
\* (the deltas of every mounted diskette, by diskette) and regInput and
\* regControl, which are not modelled
FDC_saveController(m) ==
    <<m.fdc.iDrive, m.fdc.iUnit, m.fdc.regStatus, m.fdc.regDataArray,
      m.fdc.regDataIndex, m.fdc.regDataTotal, m.fdc.regOutput,
      [iD \in DOMAIN m.drv |-> FDC_saveDrive(m.drv[iD])],
      [n \in {m.drv[iD].disk : iD \in DOMAIN m.drv} \ {NoDisk} |->
          DiskSave(n, m.img[n])],
      0, 0>>

\* FDC.prototype.initDrive(drive, iDrive, data) with the data of a saved
\* drive on a machine whose disk history is aDiskHistory, and the fSuccess
\* of initController so far: the fields by position.  Under the version tag
\* loadDiskette keeps a diskette that is mounted under the saved path (or
\* any diskette when the saved path is empty) and addDiskHistory reattaches
\* its deltas, while any other diskette is unloaded and the saved one is
\* still loading when this returns.  Deltas in the slot of the tag are
\* restored to the mounted diskette, and fail if they are not its own.  The
\* sector under the position is found again if nothing failed.
FDC_restoreDrive(r, iD, data, aDiskHistory) ==
    LET m == r.m
        d == m.drv[iD]
        fTag == data[10] = FDC_VERSION_102
        fKept == ~fTag \/ data[12] = NoDisk \/ d.disk = data[12]
        disk == IF fKept THEN d.disk ELSE NoDisk
        res == IF fTag
               THEN IF disk \in DOMAIN aDiskHistory
                    THEN DiskRestore(disk, m.img[disk], aDiskHistory[disk])
                    ELSE [n |-> 0, img |-> m.img[disk]]
               ELSE DiskRestore(disk, m.img[disk], data[10])
        fSuccess == fTag \/ disk = NoDisk \/ res.n >= 0
    IN  [m |-> [m EXCEPT
                  !.drv[iD] =
                     [d EXCEPT !.errorCode = data[1],
                               !.nCylinders = data[2][2],
                               !.nHeads = data[2][3],
                               !.nSectors = data[2][4],
                               !.cbSector = data[2][5],
                               !.bHead = data[3],
                               !.bCylinder = data[5],
                               !.bSector = data[6],
                               !.bSectorEnd = data[7],
                               !.nBytes = data[8],
                               !.ibSector = data[9],
                               !.disk = disk,
                               !.sector =
                                   IF fSuccess /\ disk # NoDisk
                                               /\ data[9] # Undefined
                                   THEN DiskSeek(res.img, data[5], data[3],
                                                 data[6])
                                   ELSE Null],
                  !.img = IF disk # NoDisk
                          THEN [n \in DOMAIN m.img |->
                                   IF n = disk THEN res.img ELSE m.img[n]]
                          ELSE @],
         fSuccess |-> r.fSuccess /\ fSuccess]

\* the drives of initController(data): every drive restored in turn, a
\* failure remembered and the loop continued
RECURSIVE FDC_restoreDrives(_, _, _)
FDC_restoreDrives(r, iD, data) ==
    IF iD \notin DOMAIN r.m.drv THEN r
    ELSE FDC_restoreDrives(FDC_restoreDrive(r, iD, data[8][iD], data[9]),
                           iD + 1, data)

\* FDC.prototype.restore(data) = initController(data[0]) on a controller
\* just constructed with the diskettes of m mounted: the registers by
\* position, then every drive; the machine and what it returns
FDC_restore(m, data) ==
    FDC_restoreDrives(
        [m |-> [m EXCEPT
                  !.fdc = [iDrive |-> data[1], iUnit |-> data[2],
                           regStatus |-> data[3], regDataArray |-> data[4],
                           regDataIndex |-> data[5], regDataTotal |-> data[6],
                           regOutput |-> data[7]],
                  !.drv = [iD \in DOMAIN m.drv |->
                              FDC_NewDrive(m.drv[iD].disk)],
                  !.img = [n \in DOMAIN m.img |->
                              NewDiskette(m.img[n].fWriteProtected)]],
         fSuccess |-> TRUE], 0, data)

\* what a save and restore has to reproduce of an HDC: the registers with
\* the FIFO and its indices, and of every drive the error code, the sense
\* code, the parameter bytes, the position and the byte cursor
HDC_Reproduced(a, b) ==
    /\ [a.hdc EXCEPT !.drive = Undefined] = [b.hdc EXCEPT !.drive = Undefined]
    /\ DOMAIN a.hdrv = DOMAIN b.hdrv
    /\ \A iD \in DOMAIN a.hdrv :
          /\ a.hdrv[iD].errorCode = b.hdrv[iD].errorCode
          /\ a.hdrv[iD].senseCode = b.hdrv[iD].senseCode
          /\ a.hdrv[iD].abDriveParms = b.hdrv[iD].abDriveParms
          /\ a.hdrv[iD].wCylinder = b.hdrv[iD].wCylinder
          /\ a.hdrv[iD].bHead = b.hdrv[iD].bHead
          /\ a.hdrv[iD].bSector = b.hdrv[iD].bSector
          /\ a.hdrv[iD].ibSector = b.hdrv[iD].ibSector

\* the same of an FDC, whose drives have no sense code or parameter bytes
FDC_Reproduced(a, b) ==
    /\ a.fdc = b.fdc
    /\ DOMAIN a.drv = DOMAIN b.drv
    /\ \A iD \in DOMAIN a.drv :
          /\ a.drv[iD].errorCode = b.drv[iD].errorCode
          /\ a.drv[iD].bCylinder = b.drv[iD].bCylinder
          /\ a.drv[iD].bHead = b.drv[iD].bHead
          /\ a.drv[iD].bSector = b.drv[iD].bSector
          /\ a.drv[iD].ibSector = b.drv[iD].ibSector

\* the controller saved in this state and restored into a controller of the
\* same configuration
Restored ==
    IF ctl = "FDC" THEN FDC_restore(Machine, FDC_saveController(Machine)).m
    ELSE HDC_restore(Machine, HDC_saveController(Machine)).m

\* C16: in every reachable state of the FDC, the XT controller and the AT
\* controller, saving the controller and restoring the saved array into a
\* controller of the same configuration reproduces every register, the FIFO
\* with its indices, and of every drive the error code, sense code,
\* parameter bytes, position and byte cursor.
C16_SaveRestoreRoundTrip ==
    IF ctl = "FDC" THEN FDC_Reproduced(Restored, Machine)
    ELSE HDC_Reproduced(Restored, Machine)


\* an XT controller with result bytes in its FIFO and a drive in the middle
\* of a track, saved, restored and reproduced, the restored drive with the
\* sector under its position
C16_Witness ==
    /\ ctl = "XTC"
    /\ hdc.regDataTotal > 0
    /\ hdrives[0].ibSector # Undefined
    /\ hdrives[0].bSector # Undefined
    /\ hdrives[0].bSector > 0
    /\ Restored.hdrv[0].sector # Null
    /\ HDC_Reproduced(Restored, Machine)


(***************************************************************************)
(* Restoring saved state: a controller just constructed is handed a saved  *)
(* array whose drives were saved anywhere on their disks, each with deltas *)
(* of the image the restoring drive has mounted or of another image.  The  *)
(* array is kept in last.data; last.cRestored counts the restores done and *)
(* last.fSuccess is what restore returned.                                 *)
(***************************************************************************)
\* cylinders and heads of the saved positions
SavTracks == 2

\* sectors of the saved positions
SavSectors == 2

\* an image no drive of the restoring controller has mounted
SAV_OtherDisk == "X"

\* what was saved of a drive: its position, its byte cursor (undefined when
\* no transfer was begun) and whether the deltas are those of the image the
\* restoring drive has mounted (fOwn); a drive of the FDC saved since the
\* disk history exists has the version tag in their place (fTag)
SAV_Drives ==
    [c : 0..(SavTracks - 1), h : 0..(SavTracks - 1), s : 1..SavSectors,
     ib : {Undefined, 0}, fOwn : BOOLEAN, fTag : {FALSE}]

\* the same of a diskette drive, anywhere on the one track of its diskette
SAV_Diskettes ==
    [c : {0}, h : {0}, s : 1..DiskSectors, ib : {Undefined, 0},
     fOwn : BOOLEAN, fTag : {FALSE}]
    \cup [c : {0}, h : {0}, s : 1..DiskSectors, ib : {Undefined, 0},
          fOwn : {TRUE}, fTag : {TRUE}]

\* the machine after new HDC(parmsHDC) with two fixed disks configured
SAV_NewHDC(fATC) ==
    HDC_initController(
        [fdc |-> NoController, drv |-> <<>>, hdc |-> HDC_NewController(fATC),
         hdrv |-> [i \in {0, 1} |-> HDC_NewDrive], img |-> <<>>,
         dma |-> DMAIdle, irr |-> {}])

\* the machine after new FDC(parmsFDC) with its diskettes mounted
SAV_NewFDC ==
    [fdc |-> FDC_NewController,
     drv |-> [i \in 0..(FDC_DRIVES - 1) |->
                FDC_NewDrive(IF i = 0 THEN "A" ELSE IF i = 2 THEN "B" ELSE NoDisk)],
     hdc |-> NoController, hdrv |-> <<>>,
     img |-> [n \in {"A", "B"} |-> NewDiskette(n = "B")],
     dma |-> DMAIdle, irr |-> {}]

\* the deltas saved with a drive that had the image disk mounted
SAV_Deltas(m, disk, p) ==
    DiskSave(IF p.fOwn THEN disk ELSE SAV_OtherDisk, m.img[disk])

\* saveController() of an HDC whose drives were at the positions p
SAV_SavedHDC(fATC, p) ==
    LET m == SAV_NewHDC(fATC)
        data == HDC_saveController(
                    [m EXCEPT !.hdrv = [iD \in DOMAIN m.hdrv |->
                        [m.hdrv[iD] EXCEPT !.wCylinder = p[iD].c,
                                           !.bHead = p[iD].h,
                                           !.bSector = p[iD].s - m.hdrv[iD].bSectorBias,
                                           !.ibSector = p[iD].ib]]])
    IN  [data EXCEPT ![Len(data)] =
            [iD \in DOMAIN m.hdrv |->
                [@[iD] EXCEPT ![13] = SAV_Deltas(m, m.hdrv[iD].disk, p[iD])]]]

\* saveController() of an FDC whose drives 0 and 2 were at the positions p
SAV_SavedFDC(p) ==
    LET m == SAV_NewFDC
        data == FDC_saveController(
                    [m EXCEPT !.drv = [iD \in DOMAIN m.drv |->
                        IF iD \in DOMAIN p
                        THEN [m.drv[iD] EXCEPT !.bCylinder = p[iD].c,
                                               !.bHead = p[iD].h,
                                               !.bSector = p[iD].s,
                                               !.ibSector = p[iD].ib]
                        ELSE m.drv[iD]]])
    IN  [data EXCEPT ![8] =
            [iD \in DOMAIN m.drv |->
                IF iD \in DOMAIN p /\ ~p[iD].fTag
                THEN [@[iD] EXCEPT ![10] = SAV_Deltas(m, m.drv[iD].disk, p[iD])]
                ELSE @[iD]]]

SAV_Init ==
    /\ ctl = "SAV"
    /\ dma = DMAIdle
    /\ irr = {}
    /\ \/ \E fATC \in BOOLEAN, p \in [{0, 1} -> SAV_Drives] :
            /\ fdc = NoController
            /\ fdrives = <<>>
            /\ hdc = SAV_NewHDC(fATC).hdc
            /\ hdrives = SAV_NewHDC(fATC).hdrv
            /\ images = SAV_NewHDC(fATC).img
            /\ last = [data |-> SAV_SavedHDC(fATC, p), cRestored |-> 0,
                       fSuccess |-> TRUE]
       \/ \E p \in [{0, 2} -> SAV_Diskettes] :
            /\ fdc = SAV_NewFDC.fdc
            /\ fdrives = SAV_NewFDC.drv
            /\ hdc = NoController
            /\ hdrives = <<>>
            /\ images = SAV_NewFDC.img
            /\ last = [data |-> SAV_SavedFDC(p), cRestored |-> 0,
                       fSuccess |-> TRUE]

\* HDC.prototype.powerUp(data): restore(data) on the HDC just constructed
SAV_RestoreHDC ==
    /\ ctl = "SAV"
    /\ fdc = NoController
    /\ last.cRestored = 0
    /\ LET r == HDC_restore(Machine, last.data)
       IN  /\ Commit(r.m)
           /\ last' = [last EXCEPT !.cRestored = 1, !.fSuccess = r.fSuccess]
    /\ UNCHANGED ctl

\* FDC.prototype.powerUp(data): restore(data) on the FDC just constructed
SAV_RestoreFDC ==
    /\ ctl = "SAV"
    /\ hdc = NoController
    /\ last.cRestored = 0
    /\ LET r == FDC_restore(Machine, last.data)
       IN  /\ Commit(r.m)
           /\ last' = [last EXCEPT !.cRestored = 1, !.fSuccess = r.fSuccess]
    /\ UNCHANGED ctl

SAV_Next == SAV_RestoreHDC \/ SAV_RestoreFDC

SpecSAV == SAV_Init /\ [][SAV_Next]_vars


\* whether the deltas saved with HDC drive iD are not those of the image
\* the restored drive has mounted
SAV_fForeignHDC(iD) ==
    last.data[Len(last.data)][iD][13].disk # hdrives[iD].disk

\* the same of FDC drive iD, which only has deltas if it was saved without
\* the version tag
SAV_fForeignFDC(iD) ==
    /\ last.data[8][iD][10] # FDC_VERSION_102
    /\ fdrives[iD].disk # NoDisk
    /\ last.data[8][iD][10].disk # fdrives[iD].disk

\* HDC drive iD has what was saved of it, and the sector under its position
\* when a transfer had been begun
SAV_fRestoredHDC(iD) ==
    LET data == last.data[Len(last.data)][iD]
        d == hdrives[iD]
    IN  /\ <<d.errorCode, d.senseCode, d.abDriveParms, d.bHead, d.wCylinder,
             d.bSector, d.bSectorEnd, d.nBytes, d.ibSector>>
           = <<data[1], data[2], data[4], data[6], data[8], data[9],
               data[10], data[11], data[12]>>
        /\ d.sector = IF d.ibSector = Undefined THEN Null
                      ELSE <<d.wCylinder, d.bHead, d.bSector + d.bSectorBias>>

SAV_fRestoredFDC(iD) ==
    LET data == last.data[8][iD]
        d == fdrives[iD]
    IN  /\ <<d.errorCode, d.bHead, d.bCylinder, d.bSector, d.bSectorEnd,
             d.nBytes, d.ibSector>>
           = <<data[1], data[3], data[5], data[6], data[7], data[8], data[9]>>
        /\ d.sector = IF d.ibSector = Undefined \/ d.disk = NoDisk THEN Null
                      ELSE <<d.bCylinder, d.bHead, d.bSector>>

XTC_StepSenses == ctl = "XTC" /\ last'.cmd = XTC_CMD_REQUEST_SENSE

\* the result of the REQUEST_SENSE this step executed is five bytes, the
\* first of them bError, then the three address bytes of the command, then
\* a status byte without STATUS_ERROR
XTC_SenseResult(bError) ==
    /\ hdc'.regDataTotal = 5
    /\ hdc'.regDataIndex = 0
    /\ hdc'.regDataArray[0] = bError
    /\ \A i \in 1..3 : hdc'.regDataArray[i] = hdc.regDataArray[i]
    /\ BitAnd(hdc'.regDataArray[4], XTC_DATA_STATUS_ERROR) = 0

\* C18 as stated: REQUEST_SENSE always produces five result bytes, four
\* sense bytes and a status byte without STATUS_ERROR, whether or not the
\* addressed drive exists, and the first sense byte is the error code the
\* previous command left (the controller's drive holds it).
C18_SenseLastError ==
    [][XTC_StepSenses => XTC_SenseResult(hdrives[0].errorCode)]_vars

\* C18: REQUEST_SENSE always produces five result bytes, four sense bytes
\* and a status byte without STATUS_ERROR, whatever the drive's error state;
\* the first sense byte is the error code the addressed drive holds, or
\* NOT_READY if the addressed drive does not exist.
C18_SenseOfAddressedDrive ==
    [][XTC_StepSenses =>
        LET iD == Shr(BitAnd(hdc.regDataArray[1], 32), 5)
        IN  XTC_SenseResult(IF iD \in DOMAIN hdrives
                            THEN hdrives[iD].errorCode
                            ELSE XTC_ERR_NOT_READY)]_vars

\* a REQUEST_SENSE for the existing drive has just returned the error code
\* of a failed command, in five result bytes
C18_Witness ==
    /\ ctl = "XTC"
    /\ last.cmd = XTC_CMD_REQUEST_SENSE
    /\ hdc.regDataTotal = 5
    /\ hdc.regDataArray[0] = XTC_ERR_NO_SECTOR
    /\ hdc.regDataArray[0] = hdrives[0].errorCode
    /\ BitAnd(hdc.regDataArray[1], 32) = 0


(***************************************************************************)
(* The INT 0x13 hook of the HDC and INIT_DRIVE on the XT controller: a     *)
(* controller with one or two fixed disks, a BIOS that calls INT 0x13 and  *)
(* sends INIT_DRIVE and TEST_READY command blocks.  last.req holds AH and  *)
(* DL of the INT 0x13 call made by the step just taken, else it is empty.  *)
(***************************************************************************)
\* HDC_intBIOSDisk that arms the flag for the first fixed disk too
HDC_intBIOSDisk_FromFirst(m, AH, DL) ==
    IF AH = 0 /\ DL >= 128 THEN [m EXCEPT !.hdc.iDriveAllowFail = DL - 128]
    ELSE m

\* HDC.prototype.intBIOSDisk(addr) with AH and DL of the CPU: the drive the
\* next INIT_DRIVE may fail for; it returns true
HDC_intBIOSDisk(m, AH, DL) ==
    IF AH = 0 /\ DL > 128 THEN [m EXCEPT !.hdc.iDriveAllowFail = DL - 128]
    ELSE m

\* INT 0x13 functions a BIOS calls: reset, and set drive parameters
INT_HostAH == {0, 9}

\* drive numbers it calls them with: the first diskette drive and the first
\* two fixed disks
INT_HostDL == {0, 128, 129}

\* first bytes of the command blocks it sends
INT_HostOpcodes == {XTC_CMD_INIT_DRIVE, XTC_CMD_TEST_READY}

\* the machine after new HDC(parmsHDC) with nDrives fixed disks configured
INT_NewHDC(nDrives) ==
    HDC_initController(
        [fdc |-> NoController, drv |-> <<>>, hdc |-> HDC_NewController(FALSE),
         hdrv |-> [i \in 0..(nDrives - 1) |-> HDC_NewDrive], img |-> <<>>,
         dma |-> DMAIdle, irr |-> {}])

INT_Init ==
    /\ ctl = "INT"
    /\ fdc = NoController
    /\ fdrives = <<>>
    /\ dma = DMAIdle
    /\ irr = {}
    /\ last = NoHistory
    /\ \E nDrives \in {1, 2} :
        /\ hdc = INT_NewHDC(nDrives).hdc
        /\ hdrives = INT_NewHDC(nDrives).hdrv
        /\ images = INT_NewHDC(nDrives).img

\* the CPU executes INT 0x13 and notifies the HDC
INT_IntBIOSDisk ==
    /\ ctl = "INT"
    /\ \E AH \in INT_HostAH, DL \in INT_HostDL :
        /\ Commit(HDC_intBIOSDisk(Machine, AH, DL))
        /\ last' = [last EXCEPT !.fPolled = FALSE, !.cmd = Undefined,
                                !.req = <<AH, DL>>]
    /\ UNCHANGED ctl

\* the BIOS writes a byte of a command block to the Data register
INT_PortOutXTCData ==
    /\ ctl = "INT"
    /\ BitAnd(hdc.regStatus, XTC_STATUS_IOMODE) = 0
    /\ hdc.regDataTotal = 0 => last.cCmds < MaxCmds
    /\ \E bOut \in (IF hdc.regDataTotal = 0 THEN INT_HostOpcodes
                    ELSE XTC_HostBytes(hdc.regDataArray[0], hdc.regDataTotal)) :
        /\ Commit(HDC_outXTCData(Machine, bOut, NoPeer))
        /\ last' = [last EXCEPT
                      !.fPolled = FALSE, !.cmd = XTC_cmdOf(hdc, bOut),
                      !.cCmds = @ + (IF hdc.regDataTotal = 0 THEN 1 ELSE 0),
                      !.req = <<>>]
    /\ UNCHANGED ctl

\* the BIOS reads a result byte from the Data register
INT_PortInXTCData ==
    /\ ctl = "INT"
    /\ BitAnd(hdc.regStatus, XTC_STATUS_IOMODE) # 0
    /\ Commit(HDC_inXTCData(Machine).m)
    /\ last' = [last EXCEPT !.fPolled = FALSE, !.cmd = Undefined,
                            !.req = <<>>]
    /\ UNCHANGED ctl

INT_Next == INT_IntBIOSDisk \/ INT_PortOutXTCData \/ INT_PortInXTCData

SpecINT == INT_Init /\ [][INT_Next]_vars


\* this step completes an INIT_DRIVE command block
INT_StepInitsDrive == ctl = "INT" /\ last'.cmd = XTC_CMD_INIT_DRIVE

\* the drive the command block in the FIFO addresses
INT_iDrive == Shr(BitAnd(hdc.regDataArray[1], 32), 5)

\* C19: an INIT_DRIVE for a drive that does not exist, executed while
\* iDriveAllowFail names that drive, reports STATUS_ERROR in its status byte
\* and clears the flag; every other INIT_DRIVE reports success and leaves
\* the flag as it is, so the failure happens once per arming.
C19_InitDriveFailsOnce ==
    [][INT_StepInitsDrive =>
        /\ hdc'.regDataTotal = 1
        /\ IF INT_iDrive \notin DOMAIN hdrives /\ hdc.iDriveAllowFail = INT_iDrive
           THEN /\ BitAnd(hdc'.regDataArray[0], XTC_DATA_STATUS_ERROR) # 0
                /\ hdc'.iDriveAllowFail = 0 - 1
           ELSE /\ BitAnd(hdc'.regDataArray[0], XTC_DATA_STATUS_ERROR) = 0
                /\ hdc'.iDriveAllowFail = hdc.iDriveAllowFail]_vars

\* an INIT_DRIVE for the missing drive 1 has just failed, as only an armed
\* flag makes it, and the flag is cleared
C19_Witness ==
    /\ 1 \notin DOMAIN hdrives
    /\ ctl = "INT"
    /\ last.cmd = XTC_CMD_INIT_DRIVE
    /\ hdc.regDataArray[0] = BitOr(XTC_DATA_STATUS_ERROR, 32)
    /\ hdc.iDriveAllowFail = 0 - 1


\* this step is an INT 0x13 call with AH = 0 and a drive number in the
\* fixed-disk range
INT_StepResetsDisk ==
    /\ ctl = "INT"
    /\ last'.req # <<>>
    /\ last'.req[1] = 0
    /\ last'.req[2] >= 128

C21_SetParametersSetsGeometry ==
    [][(ctl = "ATC" /\ last'.cmd = ATC_COMMAND_SETPARMS
          /\ hdc'.drive # Undefined) =>
        /\ hdrives'[hdc'.drive].nHeads
             = BitAnd(hdc.regDrvHd, ATC_DRVHD_HEAD_MASK) + 1
        /\ hdrives'[hdc'.drive].nSectors
             = IF hdc.regSecCnt # 0 THEN hdc.regSecCnt ELSE ATC_SECTORS_MAX]_vars


(***************************************************************************)
(* The XT controller under the commands of the HDC BIOS that need no DMA:  *)
(* the drive tests, the diagnostics and INIT_DRIVE with the geometries a   *)
(* BIOS may program, with one or two fixed disks configured.               *)
(***************************************************************************)
\* HDC.XTC.DATA.CMD.DRV_DIAGNOSTIC
XTC_CMD_DRV_DIAGNOSTIC == 227

\* the diagnostic commands of HDC.XTC.DATA.CMD
XTC_Diagnostics ==
    {XTC_CMD_RAM_DIAGNOSTIC, XTC_CMD_DRV_DIAGNOSTIC, XTC_CMD_CTL_DIAGNOSTIC}

\* first bytes of the command blocks the host sends: TEST_READY, RECALIBRATE,
\* READ_VERF, INIT_DRIVE and the three diagnostics
CMD_HostOpcodes ==
    {XTC_CMD_TEST_READY, XTC_CMD_RECALIBRATE, XTC_CMD_READ_VERF,
     XTC_CMD_INIT_DRIVE} \cup XTC_Diagnostics

\* the bytes the host may write at position i of the command block whose
\* first byte is bCmd: as XTC_HostBytes, but INIT_DRIVE programs 306 or 375
\* cylinders (low byte 50 or 119 over high byte 1) and 2 or 4 heads
CMD_HostBytes(bCmd, i) ==
    IF i = 0 THEN CMD_HostOpcodes
    ELSE IF i = XTC_CMD_LENGTH + 1 THEN {50, 119}
    ELSE IF i = XTC_CMD_LENGTH + 2 THEN {2, 4}
    ELSE XTC_HostBytes(bCmd, i)

\* the condition under which verifyDrive() emits its notice "drive
\* parameters do not match drive type"; it reads the drive parameters and
\* the drive type, which verifyDrive() leaves as they are
HDC_verifyDrive_fNotice(m, iD) ==
    LET d == m.hdrv[iD]
        fParms == d.abDriveParms[2] # Undefined /\ d.abDriveParms[2] # 0
        nHeads == IF fParms THEN d.abDriveParms[2]
                  ELSE HDC_aDriveTypes(m.hdc.fATC)[d.type][2]
        nCylinders == IF fParms
                      THEN BitOr(Shl(d.abDriveParms[0], 8), d.abDriveParms[1])
                      ELSE HDC_aDriveTypes(m.hdc.fATC)[d.type][1]
        driveType == HDC_aDriveTypes(m.hdc.fATC)[d.type]
    IN  /\ nHeads # 0
        /\ d.type \in DOMAIN HDC_aDriveTypes(m.hdc.fATC)
        /\ nCylinders # driveType[1] /\ nHeads # driveType[2]

CMD_Init ==
    /\ ctl = "CMD"
    /\ fdc = NoController
    /\ fdrives = <<>>
    /\ dma = DMAIdle
    /\ irr = {}
    /\ last = NoHistory
    /\ \E nDrives \in {1, 2} :
        /\ hdc = INT_NewHDC(nDrives).hdc
        /\ hdrives = INT_NewHDC(nDrives).hdrv
        /\ images = INT_NewHDC(nDrives).img

\* the host writes a byte of a command block to the Data register
CMD_PortOutXTCData ==
    /\ ctl = "CMD"
    /\ BitAnd(hdc.regStatus, XTC_STATUS_IOMODE) = 0
    /\ hdc.regDataTotal = 0 => last.cCmds < MaxCmds
    /\ \E bOut \in CMD_HostBytes(hdc.regDataArray[0], hdc.regDataTotal) :
        /\ Commit(HDC_outXTCData(Machine, bOut, NoPeer))
        /\ last' = [last EXCEPT
                      !.fPolled = FALSE, !.cmd = XTC_cmdOf(hdc, bOut),
                      !.cCmds = @ + (IF hdc.regDataTotal = 0 THEN 1 ELSE 0)]
    /\ UNCHANGED ctl

\* the host reads a result byte from the Data register
CMD_PortInXTCData ==
    /\ ctl = "CMD"
    /\ BitAnd(hdc.regStatus, XTC_STATUS_IOMODE) # 0
    /\ Commit(HDC_inXTCData(Machine).m)
    /\ last' = [last EXCEPT !.fPolled = FALSE, !.cmd = Undefined]
    /\ UNCHANGED ctl

CMD_Next == CMD_PortOutXTCData \/ CMD_PortInXTCData

SpecCMD == CMD_Init /\ [][CMD_Next]_vars

\* the drive addressed by the command block in the FIFO before this step
\* completes it
CMD_iDrive == Shr(BitAnd(hdc.regDataArray[1], 32), 5)

\* C22: every diagnostic command of the XT controller (RAM_DIAGNOSTIC,
\* DRV_DIAGNOSTIC, CTL_DIAGNOSTIC) completes with a single result byte that
\* has STATUS_ERROR clear, whether or not the addressed drive exists.
C22_DiagnosticsNeverFail ==
    [][(ctl = "CMD" /\ last'.cmd \in XTC_Diagnostics) =>
        /\ hdc'.regDataTotal = 1
        /\ BitAnd(hdc'.regDataArray[0], XTC_DATA_STATUS_ERROR) = 0]_vars


\* the cylinders and heads the drive parameters of drive iD program
CMD_nCylinders(iD) ==
    BitOr(Shl(hdrives[iD].abDriveParms[0], 8), hdrives[iD].abDriveParms[1])

CMD_nHeads(iD) == hdrives[iD].abDriveParms[2]

\* the drive parameters of drive iD disagree with the entry of its type in
\* the drive-type table
CMD_fMismatch(iD) ==
    \/ CMD_nCylinders(iD) # XTC_aDriveTypes[hdrives[iD].type][1]
    \/ CMD_nHeads(iD) # XTC_aDriveTypes[hdrives[iD].type][2]

\* C23: an INIT_DRIVE that programs a cylinder or head count differing from
\* the drive-type table entry of the drive emits the warning, reports
\* success, and leaves the drive with the programmed cylinders and heads.
C23_MismatchWarnsAndWins ==
    [][(ctl = "CMD" /\ last'.cmd = XTC_CMD_INIT_DRIVE
          /\ CMD_iDrive \in DOMAIN hdrives
          /\ CMD_fMismatch(CMD_iDrive)') =>
        /\ HDC_verifyDrive_fNotice(Machine', CMD_iDrive)
        /\ hdc'.regDataTotal = 1
        /\ BitAnd(hdc'.regDataArray[0], XTC_DATA_STATUS_ERROR) = 0
        /\ hdrives'[CMD_iDrive].nCylinders = CMD_nCylinders(CMD_iDrive)'
        /\ hdrives'[CMD_iDrive].nHeads = CMD_nHeads(CMD_iDrive)']_vars


\* the commands of the first, drive-ambivalent group of doXTC()
XTC_AmbivalentCommands ==
    {XTC_CMD_REQUEST_SENSE, XTC_CMD_INIT_DRIVE,
     XTC_CMD_RAM_DIAGNOSTIC, XTC_CMD_CTL_DIAGNOSTIC}

\* the controller has answered the command with a result whose status byte,
\* the last byte of the result, has STATUS_ERROR set
XTC_fReportsError ==
    /\ ~dma.open
    /\ hdc.regDataTotal >= 1
    /\ BitAnd(hdc.regStatus, XTC_STATUS_IOMODE) # 0
    /\ BitAnd(hdc.regDataArray[hdc.regDataTotal - 1], XTC_DATA_STATUS_ERROR) # 0

\* this step completes a command block for a drive that exists
XTC_StepCommandsDrive ==
    ctl = "XTC" /\ last'.cmd # Undefined /\ CMD_iDrive \in DOMAIN hdrives

\* C24 as stated: after every command the senseCode of the addressed drive is
\* zero and its errorCode is non-zero only if that command failed.
C24_CodesClearedByEveryCommand ==
    [][XTC_StepCommandsDrive =>
        /\ hdrives'[CMD_iDrive].senseCode = 0
        /\ hdrives'[CMD_iDrive].errorCode # XTC_ERR_NONE => XTC_fReportsError']_vars

\* C24: a command of the second, drive-dependent group of doXTC() clears the
\* errorCode and senseCode of the addressed drive before it runs, so that a
\* non-zero errorCode after it was set by a failure of that command; the
\* commands of the first group (REQUEST_SENSE, INIT_DRIVE, the RAM and
\* controller diagnostics) leave both codes as the previous command left them.
C24_CodesClearedByDriveCommands ==
    [][XTC_StepCommandsDrive =>
        IF last'.cmd \in XTC_AmbivalentCommands
        THEN /\ hdrives'[CMD_iDrive].errorCode = hdrives[CMD_iDrive].errorCode
             /\ hdrives'[CMD_iDrive].senseCode = hdrives[CMD_iDrive].senseCode
        ELSE /\ hdrives'[CMD_iDrive].senseCode = 0
             /\ hdrives'[CMD_iDrive].errorCode # XTC_ERR_NONE
                   => XTC_fReportsError']_vars

\* the second command, a TEST_READY, has just succeeded on drive 0 and left
\* it without an error code; the first was a READ_DATA of drive 0 whose
\* session closed incomplete, which records an error code
C24_Witness ==
    /\ ctl = "XTC"
    /\ last.cmd = XTC_CMD_TEST_READY
    /\ last.cCmds = 2
    /\ ~dma.open /\ dma.id = 1 /\ dma.fn = "dmaRead" /\ dma.iDrive = 0
    /\ ~dma.fComplete
    /\ hdc.regDataTotal = 1
    /\ hdc.regDataArray[0] = XTC_DATA_STATUS_OK
    /\ hdrives[0].errorCode = XTC_ERR_NONE

\* the drive-dependent commands of the two fixed disk controllers: test
\* ready, recalibrate or restore, read, write, verify
XTC_DriveCommands ==
    {XTC_CMD_TEST_READY, XTC_CMD_RECALIBRATE, XTC_CMD_READ_DATA,
     XTC_CMD_WRITE_DATA, XTC_CMD_READ_VERF}

ATC_DriveCommands ==
    {ATC_COMMAND_RESTORE, ATC_COMMAND_READ_DATA, ATC_COMMAND_WRITE_DATA,
     ATC_COMMAND_READ_VERF}

\* the drive the Drive/Head register of the AT controller selects
ATC_iDrive == IF BitAnd(hdc.regDrvHd, ATC_DRVHD_DRIVE_MASK) # 0 THEN 1 ELSE 0

\* C25: a drive-dependent command addressed to a drive that does not exist
\* is reported as an error: by the XT controller with STATUS_ERROR in the
\* status byte of the result, by the AT controller with ERROR in the Status
\* register and a non-zero Error register.
C25_MissingDriveIsError ==
    [][/\ (ctl \in {"XTC", "CMD"} /\ last'.cmd \in XTC_DriveCommands
             /\ CMD_iDrive \notin DOMAIN hdrives) =>
              /\ hdc'.regDataTotal = 1
              /\ BitAnd(hdc'.regDataArray[0], XTC_DATA_STATUS_ERROR) # 0
       /\ (ctl = "ATC" /\ last'.cmd \in ATC_DriveCommands
             /\ ATC_iDrive \notin DOMAIN hdrives) =>
              /\ BitAnd(hdc'.regStatus, ATC_STATUS_ERROR) # 0
              /\ hdc'.regError # ATC_ERROR_NONE]_vars


(***************************************************************************)
(* Construction of the HDC from its configuration: the controller type,    *)
(* the drive descriptor and the ChipSet component of the machine; then the *)
(* host sends commands.                                                    *)
(***************************************************************************)
\* values of the 'type' property of the drive descriptor: none, 0 (in the
\* table of the XT controller only), 3 (in both tables), 99 (in neither)
CFG_Types == {Undefined, 0, 3, 99}

\* first bytes of the command blocks the host sends to the XT controller
CFG_HostOpcodes == {XTC_CMD_TEST_READY, XTC_CMD_READ_DATA, XTC_CMD_WRITE_BUFFER}

\* commands the host writes to the AT controller
CFG_HostCommands == {ATC_COMMAND_RESTORE, ATC_COMMAND_DIAGNOSE}

\* new HDC(parmsHDC) and initBus(): aDriveConfigs holds the drive descriptor
\* if parmsHDC['drives'] parses and is empty otherwise, this.chipset is the
\* ChipSet component if the machine has one, and reset() initializes the
\* controller and the drives configured
CFG_NewHDC(fATC, type, fChipset, fParse) ==
    HDC_initController(
        [fdc |-> NoController, drv |-> <<>>,
         hdc |-> [HDC_NewController(fATC) EXCEPT !.chipset = fChipset],
         hdrv |-> [i \in (IF fParse THEN {0} ELSE {}) |->
                      [HDC_NewDrive EXCEPT !.type = type]],
         img |-> <<>>, dma |-> DMAIdle, irr |-> {}])

\* the history records the type the descriptor names and whether the
\* constructor reported a configuration error, which it does when the
\* descriptor does not parse
CFG_Init ==
    /\ ctl = "CFG"
    /\ fdc = NoController
    /\ fdrives = <<>>
    /\ dma = DMAIdle
    /\ irr = {}
    /\ \E fATC \in BOOLEAN, type \in CFG_Types, fChipset \in BOOLEAN,
          fParse \in BOOLEAN :
        /\ hdc = CFG_NewHDC(fATC, type, fChipset, fParse).hdc
        /\ hdrives = CFG_NewHDC(fATC, type, fChipset, fParse).hdrv
        /\ images = CFG_NewHDC(fATC, type, fChipset, fParse).img
        /\ last = [NoHistory EXCEPT !.req = <<type, ~fParse>>]

\* the host writes a byte of a command block to the Data register of the XT
\* controller; the DMA controller, if there is one, serves a request at once
CFG_PortOutXTCData ==
    /\ ctl = "CFG"
    /\ ~hdc.fATC
    /\ BitAnd(hdc.regStatus, XTC_STATUS_IOMODE) = 0
    /\ hdc.regDataTotal = 0 => last.cCmds < MaxCmds
    /\ \E bOut \in (IF hdc.regDataTotal = 0 THEN CFG_HostOpcodes
                    ELSE XTC_HostBytes(hdc.regDataArray[0], hdc.regDataTotal)) :
       \E p \in (IF hdc.chipset
                 THEN {q \in PeerChoices("HDC", XTC_fnOf(hdc, bOut)) : q.fNow}
                 ELSE {NoPeer}) :
        /\ Commit(HDC_outXTCData(Machine, bOut, p))
        /\ last' = [last EXCEPT
                      !.fPolled = FALSE, !.cmd = XTC_cmdOf(hdc, bOut),
                      !.cCmds = @ + (IF hdc.regDataTotal = 0 THEN 1 ELSE 0)]
    /\ UNCHANGED ctl

\* the host reads a result byte from the Data register of the XT controller
CFG_PortInXTCData ==
    /\ ctl = "CFG"
    /\ ~hdc.fATC
    /\ BitAnd(hdc.regStatus, XTC_STATUS_IOMODE) # 0
    /\ Commit(HDC_inXTCData(Machine).m)
    /\ last' = [last EXCEPT !.fPolled = FALSE, !.cmd = Undefined]
    /\ UNCHANGED ctl

\* the host writes the Command register of the AT controller
CFG_PortOutATCCommand ==
    /\ ctl = "CFG"
    /\ hdc.fATC
    /\ last.cCmds < MaxCmds
    /\ \E bOut \in CFG_HostCommands :
        /\ Commit(HDC_outATCCommand(Machine, bOut))
        /\ last' = [last EXCEPT !.fPolled = FALSE, !.cmd = bOut,
                                !.cCmds = @ + 1]
    /\ UNCHANGED ctl

CFG_Next == CFG_PortOutXTCData \/ CFG_PortInXTCData \/ CFG_PortOutATCCommand

SpecCFG == CFG_Init /\ [][CFG_Next]_vars

\* the type the drive descriptor names, and whether construction reported a
\* configuration error
CFG_type == last.req[1]

CFG_fError == last.req[2]

\* the descriptor was accepted and names a type the drive-type table of the
\* controller does not have
CFG_fUnknownType ==
    /\ 0 \in DOMAIN hdrives
    /\ CFG_type # Undefined
    /\ CFG_type \notin DOMAIN HDC_aDriveTypes(hdc.fATC)

\* C26 as stated: a drive descriptor naming a type that is not in the
\* drive-type table of the controller, or a machine without a ChipSet
\* component, makes construction fail with a configuration error.
C26_BadConfigFailsConstruction ==
    (ctl = "CFG" /\ (CFG_fUnknownType \/ ~hdc.chipset)) => CFG_fError

\* the drive the last command block addressed
CFG_iDrive == Shr(BitAnd(hdc.regDataArray[0], 32), 5)

\* C26: construction reports no configuration error for an unknown drive
\* type or a missing ChipSet component.  A drive whose descriptor names a type
\* that is not in the table gets the default type of the controller and the
\* geometry of that type; without a ChipSet component every READ_DATA and
\* WRITE_BUFFER for a drive that exists opens no DMA session, raises no
\* interrupt request and fails with NOT_READY and STATUS_ERROR.
C26_BadConfigIsTolerated ==
    ctl = "CFG" =>
        /\ (0 \in DOMAIN hdrives) => ~CFG_fError
        /\ \A iD \in DOMAIN hdrives :
            /\ hdrives[iD].type =
                 IF CFG_type \in DOMAIN HDC_aDriveTypes(hdc.fATC)
                 THEN CFG_type ELSE HDC_iDriveTypeDefault(hdc.fATC)
            /\ hdrives[iD].nCylinders
                 = HDC_aDriveTypes(hdc.fATC)[hdrives[iD].type][1]
            /\ hdrives[iD].nHeads
                 = HDC_aDriveTypes(hdc.fATC)[hdrives[iD].type][2]
        /\ ~hdc.chipset => dma = DMAIdle /\ irr = {}
        /\ (/\ ~hdc.chipset /\ ~hdc.fATC
            /\ last.cmd \in {XTC_CMD_READ_DATA, XTC_CMD_WRITE_BUFFER}
            /\ CFG_iDrive \in DOMAIN hdrives) =>
              /\ hdc.regDataTotal = 1
              /\ BitAnd(hdc.regDataArray[0], XTC_DATA_STATUS_ERROR) # 0
              /\ hdrives[CFG_iDrive].errorCode = XTC_ERR_NOT_READY

\* a machine without a ChipSet component whose drive descriptor names type
\* 99 was constructed without an error, drive 0 got type 3, and its
\* READ_DATA has just failed
C26_Witness ==
    /\ ctl = "CFG"
    /\ ~hdc.chipset /\ ~hdc.fATC
    /\ CFG_type = 99 /\ ~CFG_fError
    /\ hdrives[0].type = 3
    /\ last.cmd = XTC_CMD_READ_DATA
    /\ hdc.regDataArray[0] = XTC_DATA_STATUS_ERROR
    /\ hdrives[0].errorCode = XTC_ERR_NOT_READY


(***************************************************************************)
(* FDC: mounting and unmounting diskette images.  Of a drive the model     *)
(* keeps sDiskettePath, disk (the path the Disk object was loaded from, or *)
(* NoDisk), fBusy, fAutoMount, and sLoading, the path of the Disk.load()   *)
(* whose completion is outstanding; img[iD] is the image of the Disk       *)
(* object in drive iD; of the controller it keeps aDiskHistory, a sequence *)
(* of entries [path, deltas], cAutoMount, pAutoMount (drive -> path of the *)
(* diskette configured for it) and fReady, what setReady() was last called *)
(* with.  cLoading counts the Disk.load() calls of a drive whose           *)
(* completion is outstanding.                                              *)
(***************************************************************************)
\* FDC.prototype.updateDiskHistory(sDisketteName, sDiskettePath, disk): the
\* deltas of the Disk in drive iD go to the first entry with the path
FDC_updateDiskHistory(m, sDiskettePath, iD) ==
    LET h == m.fdc.aDiskHistory
        S == {i \in 1..Len(h) : h[i].path = sDiskettePath}
    IN  IF S = {} THEN m
        ELSE LET i == CHOOSE k \in S : \A j \in S : k <= j
             IN  [m EXCEPT !.fdc.aDiskHistory[i].deltas =
                              DiskSave(sDiskettePath, m.img[iD])]

\* FDC.prototype.removeDiskHistory(sDisketteName, sDiskettePath)
FDC_removeDiskHistory(m, sDiskettePath) ==
    LET h == m.fdc.aDiskHistory
        S == {i \in 1..Len(h) : h[i].path = sDiskettePath}
    IN  IF S = {} THEN m
        ELSE LET i == CHOOSE k \in S : \A j \in S : k <= j
             IN  [m EXCEPT !.fdc.aDiskHistory =
                     [k \in 1..(Len(h) - 1) |-> IF k < i THEN h[k] ELSE h[k + 1]]]

\* FDC_addDiskHistory that adds the path to the history when it is not
\* there and otherwise leaves the Disk as it was loaded
FDC_addDiskHistory_Fresh(m, sDiskettePath, iD) ==
    LET h == m.fdc.aDiskHistory
        S == {i \in 1..Len(h) : h[i].path = sDiskettePath}
    IN  IF S # {} THEN m
        ELSE [m EXCEPT !.fdc.aDiskHistory =
                Append(h, [path |-> sDiskettePath,
                           deltas |-> [disk |-> sDiskettePath, data |-> <<>>]])]

\* FDC.prototype.addDiskHistory(sDisketteName, sDiskettePath, disk): the Disk
\* in drive iD is restored from the first entry with the path, or a new
\* entry without deltas is added
FDC_addDiskHistory(m, sDiskettePath, iD) ==
    LET h == m.fdc.aDiskHistory
        S == {i \in 1..Len(h) : h[i].path = sDiskettePath}
    IN  IF S # {}
        THEN LET i == CHOOSE k \in S : \A j \in S : k <= j
             IN  [m EXCEPT !.img[iD] =
                     DiskRestore(sDiskettePath, @, h[i].deltas).img]
        ELSE [m EXCEPT !.fdc.aDiskHistory =
                Append(h, [path |-> sDiskettePath,
                           deltas |-> [disk |-> sDiskettePath, data |-> <<>>]])]

\* FDC.prototype.unloadDrive(iDrive, fAutoUnload, fQuiet)
FDC_unloadDrive(m, iD) ==
    IF m.drv[iD].disk # NoDisk
    THEN [FDC_updateDiskHistory(m, m.drv[iD].sDiskettePath, iD) EXCEPT
            !.drv[iD].sDiskettePath = "",
            !.drv[iD].disk = NoDisk,
            !.img[iD] = NewDiskette(FALSE)]
    ELSE m

\* FDC.prototype.unloadAllDrives(fDiscard)
RECURSIVE FDC_unloadDrives(_, _)
FDC_unloadDrives(m, iD) ==
    IF iD \notin DOMAIN m.drv THEN m
    ELSE FDC_unloadDrives(FDC_unloadDrive(m, iD), iD + 1)

FDC_unloadAllDrives(m, fDiscard) ==
    FDC_unloadDrives(IF fDiscard THEN [m EXCEPT !.fdc.aDiskHistory = <<>>] ELSE m, 0)

\* FDC_loadDiskette that counts an auto-mount before it finds the drive busy
FDC_loadDiskette_Eager(m, iD, sDiskettePath, fAutoMount) ==
    IF sDiskettePath # "" /\ m.drv[iD].sDiskettePath # sDiskettePath
    THEN LET m1 == [FDC_unloadDrive(m, iD) EXCEPT
                      !.drv[iD].fAutoMount = IF fAutoMount THEN TRUE ELSE @,
                      !.fdc.cAutoMount = @ + (IF fAutoMount THEN 1 ELSE 0)]
         IN  IF m1.drv[iD].fBusy THEN [m |-> m1, f |-> TRUE]
             ELSE [m |-> [m1 EXCEPT
                            !.drv[iD].fBusy = TRUE,
                            !.drv[iD].sLoading = sDiskettePath,
                            !.drv[iD].cLoading = @ + 1],
                   f |-> FALSE]
    ELSE [m |-> m, f |-> TRUE]

\* FDC.prototype.loadDiskette(iDrive, sDisketteName, sDiskettePath,
\* fAutoMount): the machine and the value returned
FDC_loadDiskette(m, iD, sDiskettePath, fAutoMount) ==
    IF sDiskettePath # "" /\ m.drv[iD].sDiskettePath # sDiskettePath
    THEN LET m1 == FDC_unloadDrive(m, iD)
         IN  IF m1.drv[iD].fBusy THEN [m |-> m1, f |-> TRUE]
             ELSE [m |-> [m1 EXCEPT
                            !.drv[iD].fBusy = TRUE,
                            !.drv[iD].fAutoMount = IF fAutoMount THEN TRUE ELSE @,
                            !.fdc.cAutoMount = @ + (IF fAutoMount THEN 1 ELSE 0),
                            !.drv[iD].sLoading = sDiskettePath,
                            !.drv[iD].cLoading = @ + 1],
                   f |-> FALSE]
    ELSE [m |-> m, f |-> TRUE]

\* FDC.prototype.mountDiskette(drive, disk, sDisketteName, sDiskettePath),
\* the completion of Disk.load(); fLoaded is whether it delivers a Disk
FDC_mountDiskette(m, iD, fLoaded) ==
    LET sDiskettePath == m.drv[iD].sLoading
        m1 == [m EXCEPT !.drv[iD].fBusy = FALSE, !.drv[iD].sLoading = "",
                        !.drv[iD].cLoading = @ - 1]
        m2 == IF fLoaded
              THEN FDC_addDiskHistory(
                      [m1 EXCEPT !.drv[iD].disk = sDiskettePath,
                                 !.drv[iD].sDiskettePath = sDiskettePath,
                                 !.img[iD] = NewDiskette(FALSE)],
                      sDiskettePath, iD)
              ELSE [m1 EXCEPT !.drv[iD].disk = NoDisk,
                              !.img[iD] = NewDiskette(FALSE)]
    IN  IF m2.drv[iD].fAutoMount
        THEN [m2 EXCEPT !.drv[iD].fAutoMount = FALSE,
                        !.fdc.cAutoMount = @ - 1,
                        !.fdc.fReady = IF m2.fdc.cAutoMount - 1 = 0 THEN TRUE ELSE @]
        ELSE m2

\* this.pAutoMount: the diskette configured for drive A
MNT_pAutoMount == (0 :> "P")

\* FDC.prototype.autoMount(fRemount): the loop over this.pAutoMount; a
\* load queued by a remount makes the controller not ready
RECURSIVE FDC_autoMountDrives(_, _, _)
FDC_autoMountDrives(m, iD, fRemount) ==
    IF iD \notin DOMAIN m.drv THEN m
    ELSE FDC_autoMountDrives(
            IF iD \in DOMAIN m.fdc.pAutoMount
            THEN LET r == FDC_loadDiskette(m, iD, m.fdc.pAutoMount[iD], TRUE)
                 IN  IF ~r.f /\ fRemount
                     THEN [r.m EXCEPT !.fdc.fReady = FALSE] ELSE r.m
            ELSE m,
            iD + 1, fRemount)

FDC_autoMount(m, fRemount) ==
    FDC_autoMountDrives(
        IF fRemount THEN m ELSE [m EXCEPT !.fdc.cAutoMount = 0], 0, fRemount)

\* the onclick handler of the "loadDrive" control: the disk selected is
\* unloaded (no path), or loaded; while loadDiskette() returns true the user
\* is asked to confirm a reload of the original disk, whose history is then
\* removed, and answers fConfirm the first time and no the second
FDC_onClickLoadDrive(m, iD, sDiskettePath, fConfirm) ==
    IF sDiskettePath = "" THEN FDC_unloadDrive(m, iD)
    ELSE LET r1 == FDC_loadDiskette(m, iD, sDiskettePath, FALSE)
         IN  IF ~r1.f \/ ~fConfirm THEN r1.m
             ELSE FDC_loadDiskette(
                     FDC_unloadDrive(
                        FDC_removeDiskHistory(r1.m, sDiskettePath), iD),
                     iD, sDiskettePath, FALSE).m

\* paths of the diskette images the "listDisks" control offers
MNT_Paths == {"P", "Q"}

MNT_Drives == {0, 1}

\* a drive as initDrive() leaves it: no diskette, no load outstanding
MNT_NewDrive ==
    [sDiskettePath |-> "", disk |-> NoDisk, fBusy |-> FALSE,
     fAutoMount |-> FALSE, sLoading |-> "", cLoading |-> 0]

\* the machine after the FDC constructor with pAutoMount configured: an
\* empty history and the auto-mounts queued by autoMount(); with none
\* queued the controller is ready
FDC_NewMounts(pAutoMount) ==
    LET m == FDC_autoMount(
                [fdc |-> [aDiskHistory |-> <<>>, cAutoMount |-> 0,
                          pAutoMount |-> pAutoMount, fReady |-> FALSE],
                 drv |-> [iD \in MNT_Drives |-> MNT_NewDrive],
                 hdc |-> NoController, hdrv |-> <<>>,
                 img |-> [iD \in MNT_Drives |-> NewDiskette(FALSE)],
                 dma |-> DMAIdle, irr |-> {}],
                FALSE)
    IN  IF m.fdc.cAutoMount = 0 THEN [m EXCEPT !.fdc.fReady = TRUE] ELSE m

\* the auto-mount of drive A queued
MNT_NewFDC == FDC_NewMounts(MNT_pAutoMount)

MNT_Init ==
    /\ ctl = "MNT"
    /\ fdc = MNT_NewFDC.fdc
    /\ fdrives = MNT_NewFDC.drv
    /\ hdc = NoController
    /\ hdrives = <<>>
    /\ images = MNT_NewFDC.img
    /\ dma = DMAIdle
    /\ irr = {}
    /\ last = NoHistory

\* whether the history has an entry for a path, and the deltas of the entry
MNT_fInHistory(h, sDiskettePath) ==
    \E i \in 1..Len(h) : h[i].path = sDiskettePath

MNT_Deltas(h, sDiskettePath) ==
    h[CHOOSE i \in 1..Len(h) : h[i].path = sDiskettePath /\
        \A j \in 1..(i - 1) : h[j].path # sDiskettePath].deltas

\* nChanges of addDiskHistory() for the load outstanding in drive iD: what
\* disk.restore() returns for the deltas of the history, Undefined when the
\* path has no entry
MNT_nChanges(m, iD) ==
    LET sDiskettePath == m.drv[iD].sLoading
    IN  IF MNT_fInHistory(m.fdc.aDiskHistory, sDiskettePath)
        THEN DiskRestore(sDiskettePath, NewDiskette(FALSE),
                 MNT_Deltas(m.fdc.aDiskHistory, sDiskettePath)).n
        ELSE Undefined

\* a click on "loadDrive" with a drive and a disk (or none) selected
MNT_LoadDrive ==
    /\ ctl = "MNT"
    /\ \E iD \in MNT_Drives, sDiskettePath \in MNT_Paths \cup {""},
          fConfirm \in BOOLEAN :
        Commit(FDC_onClickLoadDrive(Machine, iD, sDiskettePath, fConfirm))
    /\ last' = NoHistory
    /\ UNCHANGED ctl

\* the completion of an outstanding Disk.load(), with a Disk or with null;
\* last.req is the drive and, for a Disk, nChanges
MNT_MountDiskette ==
    /\ ctl = "MNT"
    /\ \E iD \in MNT_Drives, fLoaded \in BOOLEAN :
        /\ fdrives[iD].fBusy
        /\ Commit(FDC_mountDiskette(Machine, iD, fLoaded))
        /\ last' = [NoHistory EXCEPT !.req =
                      <<iD, IF fLoaded THEN MNT_nChanges(Machine, iD)
                            ELSE Undefined>>]
    /\ UNCHANGED ctl

\* FDC.prototype.powerUp(null) on a computer whose fReload is set
MNT_PowerUp ==
    /\ ctl = "MNT"
    /\ Commit(FDC_autoMount(FDC_unloadAllDrives(Machine, TRUE), TRUE))
    /\ last' = NoHistory
    /\ UNCHANGED ctl

\* the first byte of a sector of the diskette in a drive is written
MNT_WriteSector ==
    /\ ctl = "MNT"
    /\ \E iD \in MNT_Drives, s \in 1..DiskSectors :
        /\ fdrives[iD].disk # NoDisk
        /\ images' = [images EXCEPT ![iD] =
                         DiskWrite(@, <<0, 0, s>>, 0, 229).img]
    /\ last' = NoHistory
    /\ UNCHANGED <<ctl, fdc, fdrives, hdc, hdrives, dma, irr>>

MNT_Next ==
    \/ MNT_LoadDrive
    \/ MNT_MountDiskette
    \/ MNT_PowerUp
    \/ MNT_WriteSector

SpecMNT == MNT_Init /\ [][MNT_Next]_vars

\* C27: a diskette image is attached to at most one drive at a time: no two
\* drives hold a diskette loaded from the same path
C27_ImageInOneDrive ==
    ctl = "MNT" =>
        \A i, j \in MNT_Drives :
            (i # j /\ fdrives[i].disk # NoDisk /\ fdrives[j].disk # NoDisk)
                => fdrives[i].sDiskettePath # fdrives[j].sDiskettePath


HDC_readByteSeeks(m, iD) ==
    LET d == m.hdrv[iD]
    IN  /\ d.errorCode = XTC_ERR_NONE
        /\ ~(d.sector # Null /\ DiskRead(m.img[d.disk], d.sector, d.ibSector) >= 0)
        /\ d.disk # NoDisk

\* readByte() up to its call of disk.seek()
HDC_readByteSeeking(m, iD, inc) ==
    IF m.hdrv[iD].sector # Null THEN [m EXCEPT !.hdrv[iD].ibSector = @ + inc]
    ELSE m

\* the callback readByte() hands to disk.seek(), up to its call of done():
\* the machine and the byte handed to done()
HDC_readByteSought(m, iD, inc) ==
    LET d == m.hdrv[iD]
        sector == DiskSeek(m.img[d.disk], d.wCylinder, d.bHead,
                           d.bSector + d.bSectorBias)
        d2 == HDC_advanceSector([d EXCEPT !.sector = sector, !.ibSector = 0])
    IN  IF sector = Null
        THEN [m |-> [m EXCEPT !.hdrv[iD].sector = Null,
                              !.hdrv[iD].errorCode = XTC_ERR_NO_SECTOR],
              b |-> 0 - 1]
        ELSE [m |-> [m EXCEPT !.hdrv[iD] = [d2 EXCEPT !.ibSector = @ + inc]],
              b |-> DiskRead(m.img[d.disk], sector, 0)]

\* the done() of the readByte() calls of doATC (fATC) and inATCData
HDC_readATCDone(r, fATC) ==
    IF r.b >= 0 /\ (fATC => r.m.hdc.chipset)
    THEN [HDC_setATCIRR(r.m) EXCEPT
            !.hdc.regStatus = BitOr(ATC_STATUS_READY, ATC_STATUS_SEEK_OK)]
    ELSE [r.m EXCEPT !.hdc.regStatus = ATC_STATUS_ERROR,
                     !.hdc.regError = ATC_ERROR_NO_CHS]

\* HDC_endATCReadSeeking that shows the drive ready while the disk seeks
HDC_endATCReadSeeking_Ready(m, iD) ==
    [m EXCEPT !.hdrv[iD].nBytes = @ - m.hdrv[iD].cbSector,
              !.hdc.regSecCnt = (@ - 1) % 256,
              !.hdc.regStatus = BitOr(ATC_STATUS_READY, ATC_STATUS_SEEK_OK)]

\* inATCData() at the end of a sector with sectors remaining, up to the
\* disk.seek() of its readByte()
HDC_endATCReadSeeking(m, iD) ==
    HDC_readByteSeeking(
        [m EXCEPT !.hdrv[iD].nBytes = @ - m.hdrv[iD].cbSector,
                  !.hdc.regSecCnt = (@ - 1) % 256,
                  !.hdc.regStatus = BitOr(ATC_STATUS_BUSY, ATC_STATUS_DATA_REQ)],
        iD, 0)

\* the READ_DATA case of doATC up to the disk.seek() of its readByte()
HDC_doATCReadSeeking(m, iD) ==
    HDC_readByteSeeking(
        [m EXCEPT !.hdc.regStatus = BitOr(ATC_STATUS_BUSY, ATC_STATUS_DATA_REQ)],
        iD, 0)

\* values the host writes to the Sector Number and Sector Count registers:
\* the first and the last sector of a track and one past it; one sector, two
PMP_HostSecNum == {1, HDC_SECTORS, HDC_SECTORS + 1}

PMP_HostSecCnt == {1, 2}

\* commands the host writes: RESTORE and READ_DATA
PMP_HostCommands == {ATC_COMMAND_RESTORE, ATC_COMMAND_READ_DATA}

PMP_Init ==
    /\ ctl = "PMP"
    /\ fdc = NoController
    /\ fdrives = <<>>
    /\ hdc = HDC_NewMachine(TRUE).hdc
    /\ hdrives = HDC_NewMachine(TRUE).hdrv
    /\ images = HDC_NewMachine(TRUE).img
    /\ dma = DMAIdle
    /\ irr = {}
    /\ last = NoHistory

\* the controller is not busy: the host may write the task file
PMP_fIdle == BitAnd(hdc.regStatus, ATC_STATUS_BUSY) = 0

\* the host writes the Drive/Head, Sector Number or Sector Count register
PMP_PortOutATCTaskFile ==
    /\ ctl = "PMP"
    /\ PMP_fIdle
    /\ \/ \E bOut \in ATC_HostDrvHd : Commit(HDC_outATCDrvHd(Machine, bOut))
       \/ \E bOut \in PMP_HostSecNum : Commit(HDC_outATCSecNum(Machine, bOut))
       \/ \E bOut \in PMP_HostSecCnt : Commit(HDC_outATCSecCnt(Machine, bOut))
    /\ last' = [last EXCEPT !.req = <<>>]
    /\ UNCHANGED ctl

\* the host, having written the Sector Count register, writes the Command
\* register; the disk answers the seek of a READ_DATA at once or (fAsync)
\* later
PMP_PortOutATCCommand ==
    /\ ctl = "PMP"
    /\ PMP_fIdle
    /\ hdc.regSecCnt \in PMP_HostSecCnt
    /\ last.cCmds < MaxCmds
    /\ \E bOut \in PMP_HostCommands, fAsync \in BOOLEAN :
        LET m2 == HDC_beginATC(
                     clearIRR([Machine EXCEPT !.hdc.regCommand = bOut], IRQ_ATC))
            iD == m2.hdc.drive
        IN  IF fAsync
            THEN /\ bOut = ATC_COMMAND_READ_DATA
                 /\ iD # Undefined
                 /\ HDC_readByteSeeks(m2, iD)
                 /\ Commit(HDC_doATCReadSeeking(m2, iD))
                 /\ last' = [last EXCEPT !.cCmds = @ + 1, !.req = <<iD, "doATC">>]
            ELSE /\ Commit(HDC_outATCCommand(Machine, bOut))
                 /\ last' = [last EXCEPT !.cCmds = @ + 1, !.req = <<>>]
    /\ UNCHANGED ctl

\* the disk answers the seek outstanding
PMP_SeekDone ==
    /\ ctl = "PMP"
    /\ last.req # <<>>
    /\ last.req[2] \in {"doATC", "inATCData"}
    /\ Commit(HDC_readATCDone(HDC_readByteSought(Machine, last.req[1], 0),
                              last.req[2] = "doATC"))
    /\ last' = [last EXCEPT !.req = <<last.req[1], "sought">>]
    /\ UNCHANGED ctl

\* what the Status register tells the host of a READ_DATA: the drive is
\* ready, neither busy nor requesting data nor in error, and sectors of the
\* command remain
ATC_fReadable ==
    /\ hdc.drive # Undefined
    /\ BitAnd(hdc.regCommand, ATC_COMMAND_MASK) = ATC_COMMAND_READ_DATA
    /\ BitAnd(hdc.regStatus, ATC_STATUS_READY) # 0
    /\ BitAnd(hdc.regStatus, ATC_STATUS_BUSY) = 0
    /\ BitAnd(hdc.regStatus, ATC_STATUS_DATA_REQ) = 0
    /\ BitAnd(hdc.regStatus, ATC_STATUS_ERROR) = 0
    /\ hdrives[hdc.drive].nBytes >= hdrives[hdc.drive].cbSector

\* the host reads the Data register when the Status register lets it: the
\* first byte of a sector, then all but the last (REP INSW), then the last;
\* at the end of a sector the disk answers the seek of the next one at once
\* or (fAsync) later
PMP_PortInATCData ==
    /\ ctl = "PMP"
    /\ ATC_fReadable
    /\ \E fAsync \in BOOLEAN :
        LET iD == hdc.drive
            n == IF hdrives[iD].ibSector = 1 THEN hdrives[iD].cbSector - 2 ELSE 1
            r == HDC_readByteSync(ATC_RepIn(Machine, n - 1), iD)
            d == r.m.hdrv[iD]
            fSeeks == /\ d.ibSector # 1
                      /\ d.ibSector = d.cbSector
                      /\ d.nBytes - d.cbSector >= d.cbSector
                      /\ HDC_readByteSeeks(r.m, iD)
        IN  IF fAsync
            THEN /\ fSeeks
                 /\ Commit(HDC_endATCReadSeeking(r.m, iD))
                 /\ last' = [last EXCEPT !.req = <<iD, "inATCData">>]
            ELSE /\ Commit(HDC_afterATCRead(r, iD).m)
                 /\ last' = [last EXCEPT !.req = <<>>]
    /\ UNCHANGED ctl

PMP_Next ==
    \/ PMP_PortOutATCTaskFile
    \/ PMP_PortOutATCCommand
    \/ PMP_SeekDone
    \/ PMP_PortInATCData

SpecPMP == PMP_Init /\ [][PMP_Next]_vars

\* C28: after READ_DATA, whenever the Status register shows READY with BUSY,
\* DATA_REQ and ERROR clear and sectors remain to be transferred, a read of
\* the Data register returns a byte 0..255 without a seek: the sector was
\* sought before the status changed, also when the disk answers seeks later
C28_PumpPrimed ==
    (ctl = "PMP" /\ ATC_fReadable) =>
        /\ HDC_inATCData(Machine).b \in 0..255
        /\ hdrives[hdc.drive].sector # Null
        /\ hdrives[hdc.drive].ibSector < hdrives[hdc.drive].cbSector

\* the second sector of a READ_DATA of two is ready for the host: the disk
\* has just answered the seek inATCData() began at the end of the first
C28_Witness ==
    /\ ctl = "PMP"
    /\ ATC_fReadable
    /\ last.req = <<hdc.drive, "sought">>
    /\ hdrives[hdc.drive].nBytes = hdrives[hdc.drive].cbSector
    /\ hdc.regSecCnt = 1
    /\ hdrives[hdc.drive].ibSector = 0
    /\ IRQ_ATC \in irr


(***************************************************************************)
(* FDC: write commands to a write-protected diskette.  Drive 0 holds       *)
(* diskette A, drive 2 diskette B, which is write-protected.               *)
(***************************************************************************)
\* first bytes the host writes: WRITE_DATA and FORMAT_TRACK with the MT/MF
\* bits the BIOS sets
WPT_HostOpcodes == {197, 77}

\* the bytes the host may write at position i of the command whose first
\* byte is bCmd: the commands address unit 0 or unit 2
WPT_HostBytes(bCmd, i) ==
    IF i = 0 THEN WPT_HostOpcodes
    ELSE IF i = 1 THEN {0, 2}
    ELSE HostBytes(bCmd, i)

WPT_Init ==
    /\ ctl = "WPT"
    /\ fdc = FDC_NewController
    /\ fdrives = [i \in 0..(FDC_DRIVES - 1) |->
                    FDC_NewDrive(IF i = 0 THEN "A" ELSE IF i = 2 THEN "B" ELSE NoDisk)]
    /\ hdc = NoController
    /\ hdrives = <<>>
    /\ images = [n \in {"A", "B"} |-> NewDiskette(n = "B")]
    /\ dma = DMAIdle
    /\ irr = {}
    /\ last = NoHistory

\* the host reads the Data register (not while it is writing a command)
WPT_PortInFDCData ==
    /\ ctl = "WPT"
    /\ ~FDC_fCommandPhase
    /\ LET r == FDC_inFDCData(Machine)
       IN  /\ Commit(r.m)
           /\ last' = [last EXCEPT !.cmd = Undefined]
    /\ UNCHANGED ctl

\* the host writes a byte of a command to the Data register
WPT_PortOutFDCData ==
    /\ ctl = "WPT"
    /\ BitAnd(fdc.regStatus, FDC_REG_STATUS_READ_DATA) = 0
    /\ fdc.regDataTotal = 0 => last.cCmds < MaxCmds
    /\ \E bOut \in WPT_HostBytes(fdc.regDataArray[0], fdc.regDataTotal) :
       \E p \in PeerChoices("FDC", FDC_fnOf(fdc, bOut)) :
        /\ Commit(FDC_outFDCData(Machine, bOut, p))
        /\ last' = [last EXCEPT
                      !.cmd = FDC_cmdOf(fdc, bOut),
                      !.cCmds = @ + (IF fdc.regDataTotal = 0 THEN 1 ELSE 0)]
    /\ UNCHANGED ctl

\* the DMA peer services a session it had deferred
WPT_DMAService ==
    /\ ctl = "WPT"
    /\ dma.open
    /\ \E p \in PeerChoices("FDC", dma.fn) :
        /\ p.fNow
        /\ Commit(DMAService(Machine, p))
    /\ last' = [last EXCEPT !.cmd = Undefined]
    /\ UNCHANGED ctl

WPT_Next ==
    \/ WPT_PortInFDCData
    \/ WPT_PortOutFDCData
    \/ WPT_DMAService

SpecWPT == WPT_Init /\ [][WPT_Next]_vars

\* the step just taken executed WRITE_DATA or FORMAT_TRACK for a drive whose
\* diskette is write-protected
WPT_fWriteToProtected ==
    /\ last'.cmd \in {FDC_CMD_WRITE_DATA, FDC_CMD_FORMAT_TRACK}
    /\ fdrives[fdc'.iUnit].disk # NoDisk
    /\ images[fdrives[fdc'.iUnit].disk].fWriteProtected

\* C30: WRITE_DATA or FORMAT_TRACK addressed to a drive whose diskette is
\* write-protected opens no DMA session, leaves the image unchanged and
\* reports NOT_WRITABLE in ST1 of its result bytes
C30_ProtectedNotWritten ==
    [][(ctl = "WPT" /\ WPT_fWriteToProtected) =>
        /\ dma' = dma
        /\ images' = images
        /\ fdc'.regDataTotal > 1
        /\ BitAnd(fdc'.regDataArray[1], Shr(FDC_ERR_NOT_WRITABLE, 8)) # 0
    ]_vars

\* C30 for WRITE_DATA alone
WPT_WriteDataRefused ==
    [][(ctl = "WPT" /\ WPT_fWriteToProtected /\ last'.cmd = FDC_CMD_WRITE_DATA) =>
        /\ dma' = dma
        /\ images' = images
        /\ fdc'.regDataTotal > 1
        /\ BitAnd(fdc'.regDataArray[1], Shr(FDC_ERR_NOT_WRITABLE, 8)) # 0
    ]_vars


\* whether machine m1 has the drives of the current state with the disks
\* they hold, and the images as they are
ResetFrame(m1) ==
    /\ DOMAIN m1.drv = DOMAIN fdrives
    /\ \A i \in DOMAIN fdrives : m1.drv[i].disk = fdrives[i].disk
    /\ DOMAIN m1.hdrv = DOMAIN hdrives
    /\ \A i \in DOMAIN hdrives : m1.hdrv[i].disk = hdrives[i].disk
    /\ m1.img = images

\* C31: a controller reset (a write of the FDC Output register with ENABLE
\* clear, a write of the XT controller's reset port, initController() on a
\* machine reset) in any reachable state leaves every drive with the disk it
\* holds and every image as it is; and no step of a port handler or of the
\* DMA peer changes the disk a drive holds
C31_ResetKeepsDisks ==
    [][/\ ctl = "FDC" =>
            /\ \A bOut \in {b \in HostOutputs : BitAnd(b, FDC_REG_OUTPUT_ENABLE) = 0} :
                  ResetFrame(FDC_outFDCOutput(Machine, bOut))
            /\ ResetFrame(FDC_initController(Machine))
       /\ ctl = "XTC" => ResetFrame(HDC_outXTCReset(Machine, 0))
       /\ ctl \in {"XTC", "ATC"} => ResetFrame(HDC_initController(Machine))
       /\ \A i \in DOMAIN fdrives : fdrives'[i].disk = fdrives[i].disk
       /\ \A i \in DOMAIN hdrives : hdrives'[i].disk = hdrives[i].disk
    ]_vars

\* the FDC was reset while a DMA session was open, after a diskette had been
\* written: drive 0 still holds diskette A, and A its data
C31_Witness ==
    /\ ctl = "FDC"
    /\ last.idReset # 0
    /\ BitAnd(fdc.regOutput, FDC_REG_OUTPUT_ENABLE) = 0
    /\ fdrives[0].errorCode = FDC_ERR_RESET
    /\ fdrives[0].disk = "A"
    /\ images["A"].data # <<>>


\* C32: in the Command Phase of a command of the table, a byte written to
\* the Data register that is not the last of the length listed for (first
\* byte & 0x1F) is appended to the FIFO and nothing else happens; the byte
\* that completes the length executes the command: the FIFO then holds the
\* number of result bytes listed for it, read from index 0, and SEEK has
\* taken the unit from the second byte written and the cylinder from the
\* third; the FIFO never holds a whole command that was not executed
C32_ExecutesAtTableLength ==
    (ctl = "FDC" /\ BitAnd(fdc.regStatus, FDC_REG_STATUS_READ_DATA) = 0) =>
        \A bOut \in HostBytes(fdc.regDataArray[0], fdc.regDataTotal) :
          \A p \in PeerChoices("FDC", FDC_fnOf(fdc, bOut)) :
            LET bCmd == IF fdc.regDataTotal = 0 THEN bOut ELSE fdc.regDataArray[0]
                c == BitAnd(bCmd, 31)
                n == fdc.regDataTotal + 1
                m1 == FDC_outFDCData(Machine, bOut, p)
            IN  c \in DOMAIN FDC_aCmdSeqs =>
                  /\ n <= FDC_aCmdSeqs[c].cbWrite
                  /\ n < FDC_aCmdSeqs[c].cbWrite =>
                        m1 = [Machine EXCEPT
                                !.fdc.regDataArray[fdc.regDataTotal] = bOut,
                                !.fdc.regDataTotal = n]
                  /\ n = FDC_aCmdSeqs[c].cbWrite =>
                        /\ m1.fdc.regDataIndex = 0
                        /\ m1.fdc.regDataTotal = FDC_aCmdSeqs[c].cbRead
                        /\ c = FDC_CMD_SEEK =>
                              /\ m1.fdc.iUnit = BitAnd(fdc.regDataArray[1], 3)
                              /\ m1.drv[m1.fdc.iUnit].bCylinder = bOut

\* a READ_DATA written with the MT, MF and SK bits set has been executed by
\* its ninth byte: its seven result bytes wait in the FIFO
C32_Witness ==
    /\ ctl = "FDC"
    /\ last.cmd = FDC_CMD_READ_DATA
    /\ fdc.regDataIndex = 0
    /\ fdc.regDataTotal = 7
    /\ BitAnd(fdc.regStatus, FDC_REG_STATUS_READ_DATA) # 0


\* the drive the status byte of the pending result names (bit 5)
XTC_iResultDrive ==
    Shr(BitAnd(hdc.regDataArray[hdc.regDataTotal - 1], 32), 5)

\* C33: whenever the XT controller has answered a command for an existing
\* drive with a result whose status byte has STATUS_ERROR set, the error code
\* of that drive is non-zero, so that the REQUEST_SENSE that follows returns
\* a non-zero first sense byte; this includes the opcodes doXTC() does not
\* support (SEEK 0x0B, READ_BUFFER 0x0E).
C33_ErrorHasCode ==
    (ctl = "XTC" /\ XTC_fReportsError /\ XTC_iResultDrive \in DOMAIN hdrives)
        => hdrives[XTC_iResultDrive].errorCode # XTC_ERR_NONE


\* this step is a write to the Output register of the FDC that changes the
\* ENABLE bit from 0 to 1
FDC_StepEnables ==
    /\ ctl = "FDC"
    /\ BitAnd(fdc.regOutput, FDC_REG_OUTPUT_ENABLE) = 0
    /\ BitAnd(fdc'.regOutput, FDC_REG_OUTPUT_ENABLE) # 0

\* C34: a write to the Output register that changes ENABLE from 0 to 1
\* requests the interrupt of the FDC whenever the value written has the
\* interrupt-enable bit set, whatever the interrupt-enable bit of the value
\* written before.
C34_EnableInterrupts ==
    [][(FDC_StepEnables
          /\ BitAnd(fdc'.regOutput, FDC_REG_OUTPUT_INT_ENABLE) # 0)
        => IRQ_FDC \in irr']_vars


(***************************************************************************)
(* The INT 0x13 hook with controller resets: the BIOS of SpecINT, which    *)
(* may also write the Reset port and whose machine may be reset.           *)
(* last.idReset is 1 once a reset was taken while iDriveAllowFail named a  *)
(* drive.                                                                  *)
(***************************************************************************)
\* the BIOS writes the Reset port (0x321)
INT_PortOutXTCReset ==
    /\ ctl = "INT"
    /\ Commit(HDC_outXTCReset(Machine, 0))
    /\ last' = [last EXCEPT !.fPolled = FALSE, !.cmd = Undefined,
                            !.req = <<>>,
                            !.idReset = IF hdc.iDriveAllowFail # 0 - 1
                                        THEN 1 ELSE @]
    /\ UNCHANGED ctl

\* HDC.prototype.reset(): the machine is reset
INT_Reset ==
    /\ ctl = "INT"
    /\ Commit(HDC_initController(Machine))
    /\ last' = [last EXCEPT !.fPolled = FALSE, !.cmd = Undefined,
                            !.req = <<>>,
                            !.idReset = IF hdc.iDriveAllowFail # 0 - 1
                                        THEN 1 ELSE @]
    /\ UNCHANGED ctl

IRS_Next == INT_Next \/ INT_PortOutXTCReset \/ INT_Reset

SpecIRS == INT_Init /\ [][IRS_Next]_vars

RDN_HostSecCnt == {0, 1, 2, 255}

RDN_HostSecNum == {1, HDC_SECTORS}

RDN_HostFDR == {0, ATC_FDR_INT_DISABLE}

RDN_Init ==
    /\ ctl = "RDN"
    /\ fdc = NoController
    /\ fdrives = <<>>
    /\ hdc = HDC_NewMachine(TRUE).hdc
    /\ hdrives = HDC_NewMachine(TRUE).hdrv
    /\ images = HDC_NewMachine(TRUE).img
    /\ dma = DMAIdle
    /\ irr = {}
    /\ last = NoHistory

\* no sector of a command remains to be read
RDN_fIdle ==
    IF hdc.drive = Undefined THEN TRUE
    ELSE hdrives[hdc.drive].nBytes < hdrives[hdc.drive].cbSector

\* the host writes the Fixed Disk, Sector Number or Sector Count register
RDN_PortOutATCTaskFile ==
    /\ ctl = "RDN"
    /\ RDN_fIdle
    /\ \/ \E bOut \in RDN_HostFDR : Commit(HDC_outATCFDR(Machine, bOut))
       \/ \E bOut \in RDN_HostSecNum : Commit(HDC_outATCSecNum(Machine, bOut))
       \/ \E bOut \in RDN_HostSecCnt : Commit(HDC_outATCSecCnt(Machine, bOut))
    /\ last' = [last EXCEPT !.req = <<>>]
    /\ UNCHANGED ctl

\* the host, having written the Sector Number and Sector Count registers,
\* writes READ_DATA to the Command register
RDN_PortOutATCCommand ==
    /\ ctl = "RDN"
    /\ RDN_fIdle
    /\ hdc.regSecNum \in RDN_HostSecNum
    /\ hdc.regSecCnt \in RDN_HostSecCnt
    /\ LET m1 == HDC_outATCCommand(Machine, ATC_COMMAND_READ_DATA)
       IN  /\ Commit(m1)
           /\ last' = [last EXCEPT !.req =
                         <<IF hdc.regSecCnt # 0 THEN hdc.regSecCnt
                           ELSE ATC_SECTORS_MAX,
                           0,
                           IF IRQ_ATC \in m1.irr THEN 1 ELSE 0>>]
    /\ UNCHANGED ctl

\* the interrupt is delivered: the interrupt controller drops the request
RDN_Acknowledge ==
    /\ ctl = "RDN"
    /\ IRQ_ATC \in irr
    /\ irr' = irr \ {IRQ_ATC}
    /\ UNCHANGED <<ctl, fdc, fdrives, hdc, hdrives, images, dma, last>>

\* the host reads the Data register: the first byte of a sector, then all
\* but the last (REP INSW), then the last
RDN_PortInATCData ==
    /\ ctl = "RDN"
    /\ ATC_fReadable
    /\ IRQ_ATC \notin irr
    /\ last.req # <<>>
    /\ LET iD == hdc.drive
           n == IF hdrives[iD].ibSector = 1 THEN hdrives[iD].cbSector - 2 ELSE 1
           m1 == ATC_RepIn(Machine, n - 1)
           r == HDC_inATCData(m1)
           ib == IF hdrives[iD].ibSector = 1 THEN hdrives[iD].cbSector - 1
                 ELSE hdrives[iD].ibSector
       IN  /\ Commit(r.m)
           /\ last' = [last EXCEPT !.req =
                         <<@[1],
                           @[2] + (m1.hdrv[iD].ibSector - hdrives[iD].ibSector)
                                + (IF r.b = DiskRead(images[hdrives[iD].disk],
                                                     hdrives[iD].sector, ib)
                                      /\ r.b >= 0 THEN 1 ELSE 0),
                           @[3] + (IF IRQ_ATC \in r.m.irr THEN 1 ELSE 0)>>]
    /\ UNCHANGED ctl

RDN_Next ==
    \/ RDN_PortOutATCTaskFile
    \/ RDN_PortOutATCCommand
    \/ RDN_Acknowledge
    \/ RDN_PortInATCData

SpecRDN == RDN_Init /\ [][RDN_Next]_vars

\* sectors of the READ_DATA in progress the host has read completely
RDN_cSectorsRead == last.req[2] \div HDC_CBSECTOR

\* C36: during and after a READ_DATA of n sectors (n = 256 for a Sector
\* Count of 0) over sectors that exist, the Sector Count register is n less
\* the sectors read completely (mod 256); one interrupt has been requested
\* for every sector made ready, none with interrupts disabled in the Fixed
\* Disk Register; at most n * 512 Data reads return a byte of a sector and,
\* when they have, the Sector Count register is 0, n interrupts have been
\* requested (or none), the Status register is READY | SEEK_OK without BUSY
\* and DATA_REQ, and a further Data read returns no sector data.
C36_ReadsCountSectors ==
    (ctl = "RDN" /\ last.req # <<>>) =>
        LET n == last.req[1]
            fEnabled == BitAnd(hdc.regFDR, ATC_FDR_INT_DISABLE) = 0
            fDone == last.req[2] = n * HDC_CBSECTOR
        IN  /\ last.req[2] <= n * HDC_CBSECTOR
            /\ hdc.regSecCnt = (n - RDN_cSectorsRead) % 256
            /\ hdc.regStatus = BitOr(ATC_STATUS_READY, ATC_STATUS_SEEK_OK)
            /\ last.req[3] = IF ~fEnabled THEN 0
                             ELSE IF fDone THEN n ELSE RDN_cSectorsRead + 1
            /\ fDone => /\ hdc.regSecCnt = 0
                        /\ HDC_inATCData(Machine).b = 0 - 1

\* a READ_DATA with Sector Count 0 has delivered its 256 sectors with
\* interrupts enabled, and one with Sector Count 255 its 255 sectors
C36_Witness ==
    /\ ctl = "RDN"
    /\ last.req = <<ATC_SECTORS_MAX, ATC_SECTORS_MAX * HDC_CBSECTOR, ATC_SECTORS_MAX>>
    /\ hdc.regSecCnt = 0
    /\ hdc.regStatus = BitOr(ATC_STATUS_READY, ATC_STATUS_SEEK_OK)


\* a WRITE_DATA of the AT controller is in progress: it was the last command
\* written, for a drive that exists, and sectors of it remain to be written
ATC_fWriting ==
    /\ hdc.drive # Undefined
    /\ BitAnd(hdc.regCommand, ATC_COMMAND_MASK) = ATC_COMMAND_WRITE_DATA
    /\ hdrives[hdc.drive].nBytes >= hdrives[hdc.drive].cbSector

\* C37: a write to the Data register of the AT controller changes a disk
\* image only while a WRITE_DATA command is in progress; after any other
\* command, after a write has transferred all its sectors and before any
\* command it leaves every image as it is.
C37_WritesOnlyWhileWriting ==
    (ctl = "ATC" /\ ~ATC_fWriting)
        => HDC_outATCData(Machine, ATC_HostData).img = images


\* this step writes a first command byte to the Data register of the FDC
\* whose masked opcode FDC.aCmdSeqs does not list
FDC_StepWritesUnsupported ==
    /\ ctl = "FDC"
    /\ fdc.regDataTotal = 0
    /\ last'.cCmds = last.cCmds + 1
    /\ ~FDC_fSupported(fdc'.regDataArray[0])

\* C38: after a first command byte whose masked opcode is not in the command
\* table the command FIFO is empty again, so that the next byte written to
\* the Data register is the first byte of a new command, with no reset and
\* no Data-register read in between.
C38_UnsupportedLeavesFifoEmpty ==
    [][FDC_StepWritesUnsupported => fdc'.regDataTotal = 0]_vars


(***************************************************************************)
(* The FIFOs of the FDC and of the XT controller under a host that keeps   *)
(* to no protocol: it reads and writes the Data register in any phase,     *)
(* also on an empty FIFO and while result bytes are pending, and reads the *)
(* Status register and writes the Output, Reset and Pulse ports at any     *)
(* time.  last.req is <<"pending">> after a Data write made while result   *)
(* bytes were pending, <<"empty">> after a Data read on an empty FIFO.     *)
(***************************************************************************)
\* DMA sessions opened in one run
FIF_MaxSessions == 1

\* first bytes the host writes to the FDC: SPECIFY, SENSE_INT, READ_DATA,
\* and READ_TRACK, which FDC.aCmdSeqs does not list
FIF_HostOpcodes == {3, 8, 230, 2}

\* the bytes the host may write to the FDC next
FIF_HostBytes ==
    IF fdc.regDataTotal = 0 THEN FIF_HostOpcodes
    ELSE HostBytes(fdc.regDataArray[0], fdc.regDataTotal)

\* first bytes the host writes to the XT controller: TEST_READY,
\* REQUEST_SENSE, READ_DATA, INIT_DRIVE
FIF_XTCOpcodes == {0, 3, 8, 12}

\* the bytes the host may write to the XT controller next
FIF_XTCBytes ==
    IF hdc.regDataTotal = 0 THEN FIF_XTCOpcodes
    ELSE IF hdc.regDataTotal >= XTC_FIFO THEN {0}
    ELSE XTC_HostBytes(hdc.regDataArray[0], hdc.regDataTotal)

FIF_Init ==
    /\ ctl = "FIF"
    /\ dma = DMAIdle
    /\ irr = {}
    /\ last = NoHistory
    /\ \/ /\ fdc = FDC_NewController
          /\ fdrives = [i \in 0..(FDC_DRIVES - 1) |->
                          FDC_NewDrive(IF i = 0 THEN "A" ELSE NoDisk)]
          /\ hdc = NoController
          /\ hdrives = <<>>
          /\ images = [n \in {"A"} |-> NewDiskette(FALSE)]
       \/ /\ fdc = NoController
          /\ fdrives = <<>>
          /\ hdc = HDC_NewMachine(FALSE).hdc
          /\ hdrives = HDC_NewMachine(FALSE).hdrv
          /\ images = HDC_NewMachine(FALSE).img

\* the machine has the FDC, else the XT controller
FIF_fFDC == fdc # NoController

\* result bytes of the controller are pending
FIF_fPending ==
    IF FIF_fFDC
    THEN FDC_fResultPhase /\ fdc.regDataIndex < fdc.regDataTotal
    ELSE /\ BitAnd(hdc.regStatus, XTC_STATUS_IOMODE) # 0
         /\ hdc.regDataIndex < hdc.regDataTotal

\* the host reads the Data register
FIF_PortInData ==
    /\ ctl = "FIF"
    /\ IF FIF_fFDC THEN Commit(FDC_inFDCData(Machine).m)
       ELSE Commit(HDC_inXTCData(Machine).m)
    /\ last' = [last EXCEPT !.req =
                  IF (IF FIF_fFDC THEN fdc.regDataTotal ELSE hdc.regDataTotal) = 0
                  THEN <<"empty">> ELSE <<>>]
    /\ UNCHANGED ctl

\* the host writes the Data register
FIF_PortOutData ==
    /\ ctl = "FIF"
    /\ dma.id < FIF_MaxSessions
    /\ IF FIF_fFDC
       THEN \E bOut \in FIF_HostBytes :
            \E p \in PeerChoices("FDC", FDC_fnOf(fdc, bOut)) :
               Commit(FDC_outFDCData(Machine, bOut, p))
       ELSE \E bOut \in FIF_XTCBytes :
            \E p \in PeerChoices("HDC", XTC_fnOf(hdc, bOut)) :
               Commit(HDC_outXTCData(Machine, bOut, p))
    /\ last' = [last EXCEPT !.req =
                  IF FIF_fPending THEN <<"pending">> ELSE <<>>]
    /\ UNCHANGED ctl

\* the host reads the Status register
FIF_PortInStatus ==
    /\ ctl = "FIF"
    /\ IF FIF_fFDC THEN Commit(FDC_inFDCStatus(Machine).m)
       ELSE Commit(HDC_inXTCStatus(Machine).m)
    /\ last' = [last EXCEPT !.req = <<>>]
    /\ UNCHANGED ctl

\* the host writes the Output register of the FDC, or the Reset or the
\* Pulse port of the XT controller
FIF_PortOutControl ==
    /\ ctl = "FIF"
    /\ IF FIF_fFDC
       THEN \E bOut \in HostOutputs : Commit(FDC_outFDCOutput(Machine, bOut))
       ELSE \E fReset \in BOOLEAN :
               Commit(IF fReset THEN HDC_outXTCReset(Machine, 0)
                      ELSE HDC_outXTCPulse(Machine, 0))
    /\ last' = [last EXCEPT !.req = <<>>]
    /\ UNCHANGED ctl

\* the DMA peer services a session it had deferred
FIF_DMAService ==
    /\ ctl = "FIF"
    /\ dma.open
    /\ \E p \in PeerChoices(IF FIF_fFDC THEN "FDC" ELSE "HDC", dma.fn) :
        /\ p.fNow
        /\ Commit(DMAService(Machine, p))
    /\ last' = [last EXCEPT !.req = <<>>]
    /\ UNCHANGED ctl

FIF_Next ==
    \/ FIF_PortInData
    \/ FIF_PortOutData
    \/ FIF_PortInStatus
    \/ FIF_PortOutControl
    \/ FIF_DMAService

SpecFIF == FIF_Init /\ [][FIF_Next]_vars

\* C39: in every state of the FDC and of the XT controller between port
\* accesses, 0 <= regDataIndex <= regDataTotal <= the length of regDataArray
\* (9 for the FDC, 14 for the XT controller), whatever the Data, Status,
\* Output and Reset port reads and writes that led to it, Data reads on an
\* empty FIFO and Data writes with result bytes pending included.
C39_FifoWithinBounds ==
    ctl = "FIF" =>
        IF FIF_fFDC
        THEN /\ 0 <= fdc.regDataIndex
             /\ fdc.regDataIndex <= fdc.regDataTotal
             /\ fdc.regDataTotal <= FDC_FIFO
        ELSE /\ 0 <= hdc.regDataIndex
             /\ hdc.regDataIndex <= hdc.regDataTotal
             /\ hdc.regDataTotal <= XTC_FIFO

\* the host has just written a byte to the Data register of the FDC while
\* the seven result bytes of a READ_DATA were pending: the FIFO holds eight
C39_Witness ==
    /\ ctl = "FIF"
    /\ FIF_fFDC
    /\ last.req = <<"pending">>
    /\ fdc.regDataTotal = 8


(***************************************************************************)
(* Auto-mount of the FDC and of the HDC.  The FDC is that of the mounting  *)
(* model, with diskettes configured for both drives.  Of a fixed disk the  *)
(* model keeps path (the image configured, or none), disk (NoDisk, the     *)
(* empty Disk verifyDrive() creates, or the path loaded), fRemote (what    *)
(* disk.isRemote() returns), fBusy, fAutoMount, sLoading and cLoading; of  *)
(* the HDC cAutoMount and fReady.  Loads complete in any order, with a     *)
(* Disk or without.  last.req is the sequence of the drives whose          *)
(* auto-mount loads completed since the controller was last powered.       *)
(***************************************************************************)
\* the empty Disk of a fixed disk without image
AMT_Blank == "blank"

\* HDC.prototype.loadDisk(iDrive, sDiskName, sDiskPath, fAutoMount): the
\* machine and the value returned
HDC_loadDisk(m, iD, fAutoMount) ==
    IF m.hdrv[iD].fBusy THEN [m |-> m, f |-> TRUE]
    ELSE [m |-> [m EXCEPT
                   !.hdrv[iD].fBusy = TRUE,
                   !.hdrv[iD].fAutoMount = IF fAutoMount THEN TRUE ELSE @,
                   !.hdc.cAutoMount = @ + (IF fAutoMount THEN 1 ELSE 0),
                   !.hdrv[iD].sLoading = m.hdrv[iD].path,
                   !.hdrv[iD].cLoading = @ + 1],
          f |-> FALSE]

\* HDC.prototype.doneLoadDisk(drive, disk, sDiskName, sDiskPath), the
\* completion of Disk.load(); fLoaded is whether it delivers a Disk
HDC_doneLoadDisk(m, iD, fLoaded) ==
    LET m1 == [m EXCEPT !.hdrv[iD].fBusy = FALSE,
                        !.hdrv[iD].disk = IF fLoaded THEN m.hdrv[iD].sLoading
                                          ELSE NoDisk,
                        !.hdrv[iD].sLoading = "",
                        !.hdrv[iD].cLoading = @ - 1]
    IN  IF m1.hdrv[iD].fAutoMount
        THEN [m1 EXCEPT !.hdrv[iD].fAutoMount = FALSE,
                        !.hdc.cAutoMount = @ - 1,
                        !.hdc.fReady = IF m1.hdc.cAutoMount - 1 = 0 THEN TRUE ELSE @]
        ELSE m1

\* HDC.prototype.autoMount(fRemount): the loop over this.aDrives
RECURSIVE HDC_autoMountDrives(_, _, _)
HDC_autoMountDrives(m, iD, fRemount) ==
    IF iD \notin DOMAIN m.hdrv THEN m
    ELSE LET d == m.hdrv[iD]
             r == HDC_loadDisk(m, iD, TRUE)
         IN  HDC_autoMountDrives(
                IF d.path # ""
                THEN IF fRemount /\ d.disk # NoDisk /\ d.fRemote THEN m
                     ELSE IF ~r.f /\ fRemount
                     THEN [r.m EXCEPT !.hdc.fReady = FALSE]
                     ELSE r.m
                ELSE IF fRemount THEN [m EXCEPT !.hdrv[iD].disk = AMT_Blank]
                ELSE m,
                iD + 1, fRemount)

HDC_autoMount(m, fRemount) ==
    HDC_autoMountDrives(
        IF fRemount THEN m ELSE [m EXCEPT !.hdc.cAutoMount = 0], 0, fRemount)

\* what initController() does to the disks: verifyDrive() gives every drive
\* without a Disk an empty one
RECURSIVE HDC_verifyDisks(_, _)
HDC_verifyDisks(m, iD) ==
    IF iD \notin DOMAIN m.hdrv THEN m
    ELSE HDC_verifyDisks(
            [m EXCEPT !.hdrv[iD].disk = IF @ = NoDisk THEN AMT_Blank ELSE @],
            iD + 1)

\* the machine after initBus() of an HDC with two fixed disks, the first
\* with the image "C" configured and the second with sPath (or none)
HDC_NewMounts(sPath, fRemote) ==
    LET m == HDC_autoMount(
                HDC_verifyDisks(
                   [fdc |-> NoController, drv |-> <<>>,
                    hdc |-> [cAutoMount |-> 0, fReady |-> FALSE],
                    hdrv |-> [iD \in MNT_Drives |->
                                [path |-> IF iD = 0 THEN "C" ELSE sPath,
                                 disk |-> NoDisk, fRemote |-> fRemote,
                                 fBusy |-> FALSE, fAutoMount |-> FALSE,
                                 sLoading |-> "", cLoading |-> 0]],
                    img |-> <<>>, dma |-> DMAIdle, irr |-> {}], 0),
                FALSE)
    IN  IF m.hdc.cAutoMount = 0 THEN [m EXCEPT !.hdc.fReady = TRUE] ELSE m

\* this.pAutoMount: diskettes configured for drives A and B
AMT_pAutoMount == (0 :> "P") @@ (1 :> "Q")

AMT_Init ==
    /\ ctl = "AMT"
    /\ dma = DMAIdle
    /\ irr = {}
    /\ last = NoHistory
    /\ \E m \in {FDC_NewMounts(AMT_pAutoMount)}
              \cup {HDC_NewMounts(sPath, fRemote) :
                       sPath \in {"", "D"}, fRemote \in BOOLEAN} :
        /\ fdc = m.fdc
        /\ fdrives = m.drv
        /\ hdc = m.hdc
        /\ hdrives = m.hdrv
        /\ images = m.img

\* the machine has the FDC, else the HDC
AMT_fFDC == fdc # NoController

\* the drives of the controller
AMT_Drives == IF AMT_fFDC THEN fdrives ELSE hdrives

\* the completion of an outstanding Disk.load(), with a Disk or with null
AMT_DoneLoad ==
    /\ ctl = "AMT"
    /\ \E iD \in MNT_Drives, fLoaded \in BOOLEAN :
        /\ AMT_Drives[iD].fBusy
        /\ Commit(IF AMT_fFDC THEN FDC_mountDiskette(Machine, iD, fLoaded)
                  ELSE HDC_doneLoadDisk(Machine, iD, fLoaded))
        /\ last' = [last EXCEPT !.req =
                      IF AMT_Drives[iD].fAutoMount THEN Append(@, iD) ELSE @]
    /\ UNCHANGED ctl

\* powerUp(null) on a computer whose fReload is set
AMT_PowerUp ==
    /\ ctl = "AMT"
    /\ Commit(IF AMT_fFDC
              THEN FDC_autoMount(FDC_unloadAllDrives(Machine, TRUE), TRUE)
              ELSE HDC_autoMount(HDC_verifyDisks(Machine, 0), TRUE))
    /\ last' = NoHistory
    /\ UNCHANGED ctl

\* a click on "loadDrive" of the FDC with a drive and a disk (or none)
\* selected
AMT_LoadDrive ==
    /\ ctl = "AMT"
    /\ AMT_fFDC
    /\ \E iD \in MNT_Drives, sDiskettePath \in MNT_Paths \cup {""},
          fConfirm \in BOOLEAN :
        Commit(FDC_onClickLoadDrive(Machine, iD, sDiskettePath, fConfirm))
    /\ UNCHANGED <<ctl, last>>

AMT_Next ==
    \/ AMT_DoneLoad
    \/ AMT_PowerUp
    \/ AMT_LoadDrive

SpecAMT == AMT_Init /\ [][AMT_Next]_vars

\* the controller's cAutoMount and fReady
AMT_cAutoMount == IF AMT_fFDC THEN fdc.cAutoMount ELSE hdc.cAutoMount

AMT_fReady == IF AMT_fFDC THEN fdc.fReady ELSE hdc.fReady

\* C40: cAutoMount is the number of drives with an auto-mount load in
\* flight and is never negative; no drive has more than one load in flight,
\* and it has one exactly while it is busy; the controller is ready exactly
\* when no auto-mount load is pending, so that it becomes ready when the
\* last of them completes, with a Disk or without, in whatever order the
\* loads complete.
C40_AutoMountCounted ==
    ctl = "AMT" =>
        /\ AMT_cAutoMount >= 0
        /\ AMT_cAutoMount =
              Cardinality({iD \in MNT_Drives :
                             AMT_Drives[iD].fBusy /\ AMT_Drives[iD].fAutoMount})
        /\ \A iD \in MNT_Drives :
              /\ AMT_Drives[iD].cLoading = IF AMT_Drives[iD].fBusy THEN 1 ELSE 0
              /\ AMT_Drives[iD].fAutoMount => AMT_Drives[iD].fBusy
        /\ AMT_fReady <=> AMT_cAutoMount = 0

\* the auto-mount loads of both diskette drives have completed, that of
\* drive B first and with a Disk, that of drive A last and without one, and
\* the FDC is ready
C40_Witness ==
    /\ ctl = "AMT"
    /\ AMT_fFDC
    /\ last.req = <<1, 0>>
    /\ fdrives[1].disk = "Q"
    /\ fdrives[0].disk = NoDisk
    /\ fdc.cAutoMount = 0
    /\ fdc.fReady

====
